---- MODULE Spec2Model ----
(***************************************************************************)
(* Registry reconciliation engine (notary.py): process_audit merges a      *)
(* batch of observed games into the persisted registry (registry.json),    *)
(* guarded by a hard wealth gate and an advisory statistical gate, and     *)
(* appends one sample per committed run to the pulse history               *)
(* (pulse_history.json).                                                   *)
(***************************************************************************)
EXTENDS Integers, Sequences, FiniteSets, TLC

\* ---------------------------------------------------------------- bounds
\* number of process_audit invocations explored
MaxRuns == 5

\* ------------------------------------------------------ program constants
PULSE_WINDOW == 200
SAFETY_THRESHOLD == 40
\* the hard check is new_wealth < old_wealth * 0.75, i.e. 3/4
HardNum == 3
HardDen == 4
\* the statistical check is wealth_diff > 0.40, i.e. 2/5
AnomalyNum == 2
AnomalyDen == 5
\* retirement after this many consecutive misses
RetireAfter == 3
\* fewest pulse samples that give a baseline
MinBaseline == 3

\* Python's None (timestamps and guids are positive)
None == 0

\* ----------------------------------------------------------- input space
GameIds == {"101", "102"}

Tier(v, t) == [value |-> v, total |-> t]

\* prize tables the sensor may hand over for game 101: one tier worth 4,
\* one worth 3, one with nothing remaining; for game 102: a tier worth 4
\* followed by a tier whose value does not parse
PrizeOptions(gid) ==
    IF gid = "101"
    THEN { << Tier(<<"$", "4">>, <<"1">>) >>,
           << Tier(<<"$", "3">>, <<"1">>) >>,
           << Tier(<<"$", "4">>, <<"0">>) >> }
    ELSE { << Tier(<<"$", "4">>, <<"1">>), Tier(<< >>, <<"5">>) >> }

GameName(gid) == IF gid = "101" THEN "Game A" ELSE "Game B"
UrlSlug(gid) == IF gid = "101" THEN "game-a" ELSE "game-b"

GamesOf(gid) ==
    { [game_id |-> gid, game_name |-> GameName(gid),
       url_slug |-> UrlSlug(gid), prizes |-> p] : p \in PrizeOptions(gid) }

\* the batches handed to process_audit: empty, one game, both games, and
\* one batch that lists game 101 twice
Batches ==
    { << >> }
    \cup { <<g>> : g \in GamesOf("101") \cup GamesOf("102") }
    \cup { <<g, h>> : g \in GamesOf("101"), h \in GamesOf("102") }
    \cup { <<g, h>> : g \in { x \in GamesOf("101") : x.prizes[1].value = <<"$", "4">> /\ x.prizes[1].total = <<"1">> },
                      h \in { x \in GamesOf("101") : x.prizes[1].value = <<"$", "3">> } }

HtmlSizes == {0}

\* ------------------------------------------------------------------ state
VARIABLES
    registry_file,  \* registry.json: [exists, corrupt, data] (data: game_id -> entry)
    pulse_file,     \* pulse_history.json: [exists, corrupt, data] (data: sequence of samples)
    clock,          \* number of process_audit calls so far; datetime.now() of a call
    uuid_count,     \* number of uuid4() values drawn so far
    live_log,       \* live_ids of every committed run, oldest first
    audit,          \* the latest process_audit call: inputs, locals, outcome
    inflight,       \* per process: the process_audit call between load and persist
    pulse_trace,    \* stored history at the start followed by every recorded sample
    differ,         \* the arguments and results of the latest differ.py calls
    vault,          \* the bucket, the hash cache and the latest upload_to_vault call
    librarian,      \* start_librarian: the strike it is in and what it has called
    sensor,         \* the latest capture_session call: the page and its result
    calc            \* the latest call of a wealth calculator: argument and result

vars == <<registry_file, pulse_file, clock, uuid_count, live_log, audit,
          inflight, pulse_trace, differ, vault, librarian, sensor, calc>>

EmptyDict == [g \in {} |-> None]

\* ------------------------------------------------------- numeric parsing
DigitVal ==
    ("0" :> 0) @@ ("1" :> 1) @@ ("2" :> 2) @@ ("3" :> 3) @@ ("4" :> 4) @@
    ("5" :> 5) @@ ("6" :> 6) @@ ("7" :> 7) @@ ("8" :> 8) @@ ("9" :> 9)

IsDigit(c) == c \in DOMAIN DigitVal

\* re.sub(r'[^\d]', '', s)
StripNonDigits(s) == SelectSeq(s, IsDigit)

RECURSIVE DigitsValue(_)
DigitsValue(s) ==
    IF s = << >> THEN 0
    ELSE 10 * DigitsValue(SubSeq(s, 1, Len(s) - 1)) + DigitVal[s[Len(s)]]

\* int(s): ValueError unless s is a non-empty run of digits
PyInt(s) ==
    IF s # << >> /\ \A i \in 1..Len(s) : IsDigit(s[i])
    THEN [ok |-> TRUE, val |-> DigitsValue(s)]
    ELSE [ok |-> FALSE, val |-> 0]

\* one iteration of the try block: val * count, or skipped on
\* ValueError / KeyError
PrizeWealth(prize) ==
    IF "value" \notin DOMAIN prize \/ "total" \notin DOMAIN prize THEN 0
    ELSE LET val == PyInt(StripNonDigits(prize.value))
             count == PyInt(prize.total)
         IN  IF val.ok /\ count.ok THEN val.val * count.val ELSE 0

RECURSIVE SumSeq(_, _)
SumSeq(s, i) == IF i > Len(s) THEN 0 ELSE s[i] + SumSeq(s, i + 1)

RECURSIVE SumOver(_, _)
SumOver(f, S) ==
    IF S = {} THEN 0
    ELSE LET x == CHOOSE y \in S : TRUE
         IN  f[x] + SumOver(f, S \ {x})

\* data.get("prizes", [])
GetPrizes(data) == IF "prizes" \in DOMAIN data THEN data.prizes ELSE << >>

EntryWealth(data) ==
    IF data.status = "ACTIVE"
    THEN SumSeq([i \in 1..Len(GetPrizes(data)) |-> PrizeWealth(GetPrizes(data)[i])], 1)
    ELSE 0

calculate_total_wealth(registry) ==
    SumOver([gid \in DOMAIN registry |-> EntryWealth(registry[gid])], DOMAIN registry)

EntryTopPrize(data) ==
    IF data.status = "ACTIVE" /\ GetPrizes(data) # << >>
    THEN PrizeWealth(GetPrizes(data)[1])
    ELSE 0

calculate_top_prize_sum(registry) ==
    SumOver([gid \in DOMAIN registry |-> EntryTopPrize(registry[gid])], DOMAIN registry)

\* ----------------------------------------------------------- pulse memory
\* the history read by update_pulse: missing or unparseable file gives []
PulseLoad(file) == IF file.exists /\ ~file.corrupt THEN file.data ELSE << >>

\* mutant of LastN: history[:n], the oldest n samples are kept
LastN_Oldest(s, n) == IF Len(s) > n THEN SubSeq(s, 1, n) ELSE s

\* history[-n:] when len(history) > n
LastN(s, n) == IF Len(s) > n THEN SubSeq(s, Len(s) - n + 1, Len(s)) ELSE s

\* the history update_pulse writes back
update_pulse(file, stats) == LastN(Append(PulseLoad(file), stats), PULSE_WINDOW)

\* mutant of get_statistical_baseline: a history of exactly 3 samples gives
\* no baseline
get_statistical_baseline_Late(file) ==
    IF ~file.exists THEN [kind |-> "none"]
    ELSE IF file.corrupt THEN [kind |-> "raise"]
    ELSE IF Len(file.data) <= MinBaseline THEN [kind |-> "none"]
    ELSE [kind |-> "some",
          sum_wealth |-> SumSeq([i \in 1..Len(file.data) |-> file.data[i].total_wealth], 1),
          sum_games |-> SumSeq([i \in 1..Len(file.data) |-> file.data[i].game_count], 1),
          sample_size |-> Len(file.data)]

\* get_statistical_baseline: kind "none" is the None return, "raise" the
\* uncaught json.JSONDecodeError; the averages are kept as the exact
\* fractions sum / sample_size
get_statistical_baseline(file) ==
    IF ~file.exists THEN [kind |-> "none"]
    ELSE IF file.corrupt THEN [kind |-> "raise"]
    ELSE IF Len(file.data) < MinBaseline THEN [kind |-> "none"]
    ELSE [kind |-> "some",
          sum_wealth |-> SumSeq([i \in 1..Len(file.data) |-> file.data[i].total_wealth], 1),
          sum_games |-> SumSeq([i \in 1..Len(file.data) |-> file.data[i].game_count], 1),
          sample_size |-> Len(file.data)]

\* -------------------------------------------------------------- the files
NoFile(empty) == [exists |-> FALSE, corrupt |-> FALSE, data |-> empty]
FileOf(content) == [exists |-> TRUE, corrupt |-> FALSE, data |-> content]

\* the registry process_audit starts from: a missing or unparseable
\* registry.json gives {}
RegistryLoad(file) == IF file.exists /\ ~file.corrupt THEN file.data ELSE EmptyDict

\* ------------------------------------------------------- process_audit
\* temp_registry and birth_count after the first loop over parsed_games[i..]
RECURSIVE TempLoop(_, _, _, _)
TempLoop(temp, births, games, i) ==
    IF i > Len(games) THEN [temp_registry |-> temp, birth_count |-> births]
    ELSE LET gid == games[i].game_id
         IN  TempLoop((gid :> [prizes |-> games[i].prizes, status |-> "ACTIVE"]) @@ temp,
                      IF gid \in DOMAIN temp THEN births ELSE births + 1,
                      games, i + 1)

\* mutant of Stasis: the update leaves miss_count as it was
Stasis_KeepMisses(data, game, now, run_id) ==
    [data EXCEPT !.last_seen = now, !.status = "ACTIVE",
                 !.prizes = game.prizes, !.last_run_id = run_id]

\* mutant of Stasis: the prizes of the entry are kept
Stasis_KeepPrizes(data, game, now, run_id) ==
    [data EXCEPT !.last_seen = now, !.status = "ACTIVE", !.miss_count = 0,
                 !.last_run_id = run_id]

\* mutant of Stasis: the update also restamps first_seen
Stasis_Restamp(data, game, now, run_id) ==
    [data EXCEPT !.last_seen = now, !.status = "ACTIVE", !.miss_count = 0,
                 !.prizes = game.prizes, !.last_run_id = run_id,
                 !.first_seen = now]

\* STASIS: registry[gid].update({...})
Stasis(data, game, now, run_id) ==
    [data EXCEPT !.last_seen = now, !.status = "ACTIVE", !.miss_count = 0,
                 !.prizes = game.prizes, !.last_run_id = run_id]

\* BIRTH: the entry created for a game not yet in the registry
Birth(game, guid, now, run_id) ==
    [guid |-> guid, game_id |-> game.game_id, game_name |-> game.game_name,
     url_slug |-> game.url_slug, overall_odds |-> "Unknown",
     prizes |-> game.prizes, status |-> "ACTIVE", first_seen |-> now,
     last_seen |-> now, miss_count |-> 0, death_date |-> None,
     last_run_id |-> run_id]

\* str(uuid.uuid4()): the n-th value drawn is fresh
Uuid4(drawn) == drawn + 1

\* the second loop over parsed_games[i..]: registry and uuid4() draws so far
RECURSIVE CommitLoop(_, _, _, _, _, _)
CommitLoop(registry, drawn, games, i, now, run_id) ==
    IF i > Len(games) THEN [registry |-> registry, drawn |-> drawn]
    ELSE LET gid == games[i].game_id
         IN  IF gid \in DOMAIN registry
             THEN CommitLoop([registry EXCEPT ![gid] = Stasis(registry[gid], games[i], now, run_id)],
                             drawn, games, i + 1, now, run_id)
             ELSE CommitLoop((gid :> Birth(games[i], Uuid4(drawn), now, run_id)) @@ registry,
                             drawn + 1, games, i + 1, now, run_id)

\* mutant of Death: retirement needs miss_count > 3
Death_Late(data, gid, live_ids, now) ==
    IF data.status = "ACTIVE" /\ gid \notin live_ids
    THEN IF data.miss_count + 1 > RetireAfter
         THEN [data EXCEPT !.miss_count = data.miss_count + 1,
                           !.status = "RETIRED", !.death_date = now]
         ELSE [data EXCEPT !.miss_count = data.miss_count + 1]
    ELSE data

\* mutant of Death: the miss that retires an entry is not counted
Death_Uncounted(data, gid, live_ids, now) ==
    IF data.status = "ACTIVE" /\ gid \notin live_ids
    THEN IF data.miss_count + 1 >= RetireAfter
         THEN [data EXCEPT !.status = "RETIRED", !.death_date = now]
         ELSE [data EXCEPT !.miss_count = data.miss_count + 1]
    ELSE data

\* mutant of Death: a missed entry is also stamped as seen
Death_Stamped(data, gid, live_ids, now) ==
    IF data.status = "ACTIVE" /\ gid \notin live_ids
    THEN IF data.miss_count + 1 >= RetireAfter
         THEN [data EXCEPT !.miss_count = data.miss_count + 1,
                           !.status = "RETIRED", !.death_date = now]
         ELSE [data EXCEPT !.miss_count = data.miss_count + 1, !.last_seen = now]
    ELSE data

\* DEATH management for one entry
Death(data, gid, live_ids, now) ==
    IF data.status = "ACTIVE" /\ gid \notin live_ids
    THEN IF data.miss_count + 1 >= RetireAfter
         THEN [data EXCEPT !.miss_count = data.miss_count + 1,
                           !.status = "RETIRED", !.death_date = now]
         ELSE [data EXCEPT !.miss_count = data.miss_count + 1]
    ELSE data

\* mutant of DeathSweep: an entry is deleted when it is retired
DeathSweep_Purge(registry, live_ids, now) ==
    [gid \in { g \in DOMAIN registry :
                  Death(registry[g], g, live_ids, now).status = registry[g].status }
        |-> Death(registry[gid], gid, live_ids, now)]

\* the loop over registry.items() of the DEATH management
DeathSweep(registry, live_ids, now) ==
    [gid \in DOMAIN registry |-> Death(registry[gid], gid, live_ids, now)]

\* mutant of DeathCount: every missed ACTIVE entry is counted
DeathCount_Missed(registry, live_ids) ==
    Cardinality({gid \in DOMAIN registry :
                    /\ registry[gid].status = "ACTIVE"
                    /\ gid \notin live_ids})

DeathCount(registry, live_ids) ==
    Cardinality({gid \in DOMAIN registry :
                    /\ registry[gid].status = "ACTIVE"
                    /\ gid \notin live_ids
                    /\ registry[gid].miss_count + 1 >= RetireAfter})

LiveIds(games) == {games[i].game_id : i \in 1..Len(games)}

Abs(x) == IF x < 0 THEN 0 - x ELSE x

\* mutant of HardCheckFails: the gate trips only below half the old wealth
HardCheckFails_Half(old_wealth, new_wealth) ==
    old_wealth > 0 /\ 2 * new_wealth < old_wealth

\* mutant of HardCheckFails: the gate also trips at exactly 0.75
HardCheckFails_Inclusive(old_wealth, new_wealth) ==
    old_wealth > 0 /\ HardDen * new_wealth <= HardNum * old_wealth

\* 1. Hard Check: old_wealth > 0 and new_wealth < old_wealth * 0.75
HardCheckFails(old_wealth, new_wealth) ==
    old_wealth > 0 /\ HardDen * new_wealth < HardNum * old_wealth

\* 2. Statistical Check divides by avg_wealth and by avg_games
StatCheckRaises(baseline) ==
    baseline.kind = "some" /\ (baseline.sum_wealth = 0 \/ baseline.sum_games = 0)

\* wealth_diff > 0.40 with avg_wealth = sum_wealth / sample_size
StatAnomaly(baseline, new_wealth) ==
    /\ baseline.kind = "some"
    /\ baseline.sum_wealth > 0
    /\ AnomalyDen * Abs(baseline.sample_size * new_wealth - baseline.sum_wealth)
          > AnomalyNum * baseline.sum_wealth

\* the locals of one process_audit call that starts from the given file
\* contents at time now, with drawn uuid4() values used so far
AuditLocals(regfile, pulsefile, parsed_games, run_id, html_size_kb, now, drawn) ==
    LET registry == RegistryLoad(regfile)
        old_wealth == calculate_total_wealth(registry)
        baseline == get_statistical_baseline(pulsefile)
        temp == TempLoop(registry, 0, parsed_games, 1)
        new_wealth == calculate_total_wealth(temp.temp_registry)
        new_top_prizes == calculate_top_prize_sum(temp.temp_registry)
        new_game_count == Len(parsed_games)
        live_ids == LiveIds(parsed_games)
        merged == CommitLoop(registry, drawn, parsed_games, 1, now, run_id)
        outcome == IF baseline.kind = "raise" THEN "raised"
                   ELSE IF HardCheckFails(old_wealth, new_wealth) THEN "aborted"
                   ELSE IF StatCheckRaises(baseline) THEN "raised"
                   ELSE "committed"
    IN  [old_wealth |-> old_wealth, new_wealth |-> new_wealth,
         baseline |-> baseline, live_ids |-> live_ids,
         outcome |-> outcome,
         anomaly |-> (outcome = "committed" /\ StatAnomaly(baseline, new_wealth)),
         drawn |-> merged.drawn,
         final |-> DeathSweep(merged.registry, live_ids, now),
         stats |-> [run_id |-> run_id, timestamp |-> now,
                    game_count |-> new_game_count, total_wealth |-> new_wealth,
                    top_prize_sum |-> new_top_prizes,
                    birth_count |-> temp.birth_count,
                    death_count |-> DeathCount(merged.registry, live_ids),
                    html_size_kb |-> html_size_kb]]

\* what the caller of the latest process_audit call can observe
AuditRecord(regfile, pulsefile, parsed_games, run_id, now, loc, outcome, fault) ==
    [parsed_games |-> parsed_games, run_id |-> run_id, now |-> now,
     registry_before |-> regfile, pulse_before |-> pulsefile,
     old_wealth |-> loc.old_wealth, new_wealth |-> loc.new_wealth,
     baseline |-> loc.baseline, anomaly |-> loc.anomaly,
     fault |-> fault, outcome |-> outcome]

\* the ways a write of the commit phase can fail: open(..., 'w') raising
\* leaves the file as it was, json.dump raising leaves a truncated file
Faults == {"none", "pulse_open", "pulse_dump", "registry_open", "registry_dump"}

Truncated(file) == [exists |-> TRUE, corrupt |-> TRUE, data |-> file.data]

\* what one whole process_audit call does to the files, the clock and the
\* record of the latest call; fault names the write that raises, if any
AuditEffects(parsed_games, run_id, html_size_kb, fault) ==
    LET now == clock + 1
        loc == AuditLocals(registry_file, pulse_file, parsed_games, run_id,
                           html_size_kb, now, uuid_count)
        failed == loc.outcome = "committed" /\ fault # "none"
        outcome == IF failed THEN "raised" ELSE loc.outcome
    IN  /\ clock' = now
        /\ audit' = AuditRecord(registry_file, pulse_file, parsed_games, run_id, now,
                                loc, outcome, IF failed THEN fault ELSE "none")
        /\ IF loc.outcome # "committed"
           THEN UNCHANGED <<pulse_file, registry_file, uuid_count, live_log>>
           ELSE /\ uuid_count' = loc.drawn
                /\ pulse_file' =
                      IF fault = "pulse_open" THEN pulse_file
                      ELSE IF fault = "pulse_dump" THEN Truncated(pulse_file)
                      ELSE FileOf(update_pulse(pulse_file, loc.stats))
                /\ registry_file' =
                      IF fault \in {"pulse_open", "pulse_dump", "registry_open"}
                      THEN registry_file
                      ELSE IF fault = "registry_dump" THEN Truncated(registry_file)
                      ELSE FileOf(loc.final)
                /\ live_log' = IF fault = "none" THEN Append(live_log, loc.live_ids)
                               ELSE live_log

\* one whole process_audit call, called on its own
AuditRun(parsed_games, run_id, html_size_kb, fault) ==
    /\ AuditEffects(parsed_games, run_id, html_size_kb, fault)
    /\ UNCHANGED <<inflight, pulse_trace, differ, vault, librarian, sensor, calc>>

\* process_audit with every write succeeding
process_audit(parsed_games, run_id, html_size_kb) ==
    AuditRun(parsed_games, run_id, html_size_kb, "none")

\* ------------------------------------------------------------ the system
NoLocals ==
    [old_wealth |-> 0, new_wealth |-> 0, baseline |-> [kind |-> "none"],
     anomaly |-> FALSE]

Procs == {"p1", "p2"}

IdleProc == [phase |-> "idle"]

NoDiffer == [phase |-> "unused"]

\* a component that the runs of a specification never call
Unused == [phase |-> "unused"]

Init ==
    /\ registry_file = NoFile(EmptyDict)
    /\ pulse_file = NoFile(<< >>)
    /\ clock = 0
    /\ uuid_count = 0
    /\ live_log = << >>
    /\ audit = AuditRecord(NoFile(EmptyDict), NoFile(<< >>), << >>, None, None,
                           NoLocals, "idle", "none")
    /\ inflight = [p \in Procs |-> IdleProc]
    /\ pulse_trace = << >>
    /\ differ = NoDiffer
    /\ vault = Unused
    /\ librarian = Unused
    /\ sensor = Unused
    /\ calc = Unused

Next ==
    /\ clock < MaxRuns
    /\ \E parsed_games \in Batches, html_size_kb \in HtmlSizes :
          process_audit(parsed_games, clock + 1, html_size_kb)

Spec == Init /\ [][Next]_vars

\* ------------------------------------------------------------ vocabulary
\* the latest call has run
Ran == audit.outcome # "idle"
Committed == audit.outcome = "committed"
\* process_audit returned None
Aborted == audit.outcome = "aborted"

\* registry persisted before and after the latest call
Before == RegistryLoad(audit.registry_before)
After == RegistryLoad(registry_file)

BatchIds == LiveIds(audit.parsed_games)

\* nothing was written by the latest call
NothingWritten ==
    /\ registry_file = audit.registry_before
    /\ pulse_file = audit.pulse_before

\* the wealth carried by the games actually observed in the latest batch
ObservedWealth ==
    calculate_total_wealth(TempLoop(EmptyDict, 0, audit.parsed_games, 1).temp_registry)

\* the index in live_log of the latest committed run that observed gid (0 if none)
LastObserved(gid) ==
    LET seen == {i \in 1..Len(live_log) : gid \in live_log[i]}
    IN  IF seen = {} THEN 0 ELSE CHOOSE i \in seen : \A j \in seen : j <= i

\* the number of committed runs since gid was last observed
AbsentRuns(gid) == Len(live_log) - LastObserved(gid)

\* ------------------------------------------------------------------ C1
\* C1: whenever old_wealth > 0 and new_wealth < 0.75 * old_wealth, the
\* run returns None and neither registry.json nor pulse_history.json is
\* modified by that run.
C1_HardGateAborts ==
    (Ran /\ audit.old_wealth > 0 /\ 4 * audit.new_wealth < 3 * audit.old_wealth)
        => (Aborted /\ NothingWritten)

\* a run that tripped the gate on a non-empty registry
C1_Witness ==
    /\ Aborted
    /\ audit.old_wealth > 0
    /\ 4 * audit.new_wealth < 3 * audit.old_wealth
    /\ DOMAIN Before # {}

\* ------------------------------------------------------------------ C2
\* C2 as stated: for old wealth W > 0, a candidate wealth less than or
\* equal to 0.75 * W aborts the run and leaves registry.json unchanged.
C2_AbortsAtOrBelowThreshold ==
    (Ran /\ audit.old_wealth > 0 /\ 4 * audit.new_wealth <= 3 * audit.old_wealth)
        => (Aborted /\ registry_file = audit.registry_before)

\* C2 amended: for old wealth W > 0, a candidate wealth strictly below
\* 0.75 * W aborts the run and leaves registry.json unchanged, and at
\* exactly 0.75 * W the hard gate does not abort the run.
C2_AbortsStrictlyBelowThreshold ==
    /\ (Ran /\ audit.old_wealth > 0 /\ 4 * audit.new_wealth < 3 * audit.old_wealth)
          => (Aborted /\ registry_file = audit.registry_before)
    /\ (Ran /\ audit.old_wealth > 0 /\ 4 * audit.new_wealth = 3 * audit.old_wealth)
          => ~Aborted

\* a run at exactly three quarters of the old wealth that was committed
C2_Witness ==
    /\ Committed
    /\ audit.old_wealth > 0
    /\ 4 * audit.new_wealth = 3 * audit.old_wealth
    /\ registry_file # audit.registry_before

\* ------------------------------------------------------------------ C3
\* C3: for old_wealth > 0, a batch that omits previously ACTIVE games so
\* that the wealth carried by the games actually observed is below 75% of
\* old_wealth makes process_audit abort.
C3_PartialScrapeAborts ==
    (/\ Ran
     /\ audit.old_wealth > 0
     /\ \E gid \in DOMAIN Before : Before[gid].status = "ACTIVE" /\ gid \notin BatchIds
     /\ 4 * ObservedWealth < 3 * audit.old_wealth)
        => Aborted

\* ------------------------------------------------------------------ C4
\* C4: an ACTIVE entry with miss_count 0 is, after 1 committed run in which
\* it is absent, ACTIVE with miss_count 1; after 2 consecutive such runs
\* ACTIVE with miss_count 2; after the 3rd RETIRED with a death_date.
C4_DeathTiming ==
    \A gid \in DOMAIN After :
        /\ AbsentRuns(gid) = 1
              => (After[gid].status = "ACTIVE" /\ After[gid].miss_count = 1)
        /\ AbsentRuns(gid) = 2
              => (After[gid].status = "ACTIVE" /\ After[gid].miss_count = 2)
        /\ AbsentRuns(gid) = 3
              => (After[gid].status = "RETIRED" /\ After[gid].death_date # None)

\* the latest run was the third consecutive committed run without the
\* entry and retired it
C4_Witness ==
    /\ Committed
    /\ \E gid \in DOMAIN Before :
          /\ AbsentRuns(gid) = 3
          /\ Before[gid].status = "ACTIVE"
          /\ Before[gid].miss_count = 2
          /\ After[gid].status = "RETIRED"
          /\ After[gid].death_date = audit.now

\* ------------------------------------------------------------------ C5
\* C5: an entry becomes RETIRED only in a run that is the third committed
\* run in a row without it, and every committed run that observes an entry
\* leaves its miss_count at 0.
C5_RetiredOnlyAfterThreeMisses ==
    Committed =>
        /\ \A gid \in DOMAIN Before :
              (Before[gid].status = "ACTIVE" /\ After[gid].status = "RETIRED")
                 => /\ Len(live_log) >= 3
                    /\ \A i \in (Len(live_log) - 2)..Len(live_log) : gid \notin live_log[i]
        /\ \A gid \in BatchIds : After[gid].miss_count = 0

\* an entry that missed two runs was observed again and its count is back
\* at 0
C5_Witness ==
    /\ Committed
    /\ \E gid \in DOMAIN Before \cap BatchIds :
          /\ Before[gid].status = "ACTIVE"
          /\ Before[gid].miss_count = 2
          /\ After[gid].miss_count = 0

\* ------------------------------------------------------------------ C6
\* C6: no entry's status ever changes from RETIRED to ACTIVE, also when
\* the batch contains the id of a RETIRED entry.
C6_RetiredIsTerminal ==
    \A gid \in DOMAIN Before :
        Before[gid].status = "RETIRED" => After[gid].status = "RETIRED"

\* ------------------------------------------------------------------ C7
\* C7: the guid and first_seen an entry got when it was created are never
\* changed by a later run, whatever the run does with the entry.
C7_GuidAndFirstSeenImmutable ==
    \A gid \in DOMAIN Before :
        /\ gid \in DOMAIN After
        /\ After[gid].guid = Before[gid].guid
        /\ After[gid].first_seen = Before[gid].first_seen

\* a RETIRED entry was observed again, long after its creation, and the
\* run rewrote it
C7_Witness ==
    /\ Committed
    /\ \E gid \in DOMAIN Before \cap BatchIds :
          /\ Before[gid].status = "RETIRED"
          /\ After[gid].last_seen = audit.now
          /\ After[gid].first_seen < audit.now

\* ------------------------------------------------------------------ C8
\* C8: reconciling an empty registry with N records of pairwise distinct
\* ids yields a registry of exactly N entries, each ACTIVE with
\* miss_count 0, no death_date and a guid, the guids pairwise distinct.
C8_BirthFromEmpty ==
    (/\ Ran
     /\ DOMAIN Before = {}
     /\ Cardinality(BatchIds) = Len(audit.parsed_games))
        => /\ Committed
           /\ Cardinality(DOMAIN After) = Len(audit.parsed_games)
           /\ \A gid \in DOMAIN After :
                 /\ After[gid].status = "ACTIVE"
                 /\ After[gid].miss_count = 0
                 /\ After[gid].death_date = None
                 /\ After[gid].guid # None
           /\ \A g1, g2 \in DOMAIN After :
                 g1 # g2 => After[g1].guid # After[g2].guid

\* ------------------------------------------------------------------ C9
\* C9: for every batch of fewer than SAFETY_THRESHOLD records,
\* process_audit returns None and commits nothing.
C9_RejectsLowGameCount ==
    (Ran /\ Len(audit.parsed_games) < SAFETY_THRESHOLD)
        => (Aborted /\ NothingWritten)

\* ------------------------------------------------------------------ C10
\* C10: for every batch of fewer than SAFETY_THRESHOLD records, the empty
\* batch included, process_audit completes without raising, and when the
\* hard gate does not trip it commits a registry in which every ACTIVE
\* entry missing from the batch has its absence counted.
C10_ToleratesShortBatch ==
    (Ran /\ Len(audit.parsed_games) < SAFETY_THRESHOLD)
        => /\ audit.outcome # "raised"
           /\ ~Aborted =>
                 /\ Committed
                 /\ \A gid \in DOMAIN Before \ BatchIds :
                       Before[gid].status = "ACTIVE"
                          => After[gid].miss_count = Before[gid].miss_count + 1

\* ------------------------------------------------------------------ C11
\* the hard gate does not trip on the latest call's wealth figures
PassesHardGate ==
    ~(audit.old_wealth > 0 /\ 4 * audit.new_wealth < 3 * audit.old_wealth)

\* the latest call left one more sample in pulse_history.json
SampleAppended ==
    /\ pulse_file.exists /\ ~pulse_file.corrupt
    /\ Len(PulseLoad(pulse_file)) = Len(PulseLoad(audit.pulse_before)) + 1
    /\ pulse_file.data[Len(pulse_file.data)].run_id = audit.run_id

\* C11: with a stored history of at least 3 samples, whatever its means
\* are, a run that passes the hard gate commits the registry and appends a
\* sample; the statistical gate never stops it.
C11_StatGateNeverAborts ==
    (Ran /\ Len(PulseLoad(audit.pulse_before)) >= 3 /\ PassesHardGate)
        => (Committed /\ SampleAppended)

\* ------------------------------------------------- runs with failing writes
\* number of process_audit calls explored when writes may fail
MaxFaultRuns == 2

NextFaults ==
    /\ clock < MaxFaultRuns
    /\ \E parsed_games \in Batches, html_size_kb \in HtmlSizes, fault \in Faults :
          AuditRun(parsed_games, clock + 1, html_size_kb, fault)

SpecFaults == Init /\ [][NextFaults]_vars

\* ------------------------------------------------------------------ C12
\* C12: in every run, however it ends, a sample is appended to
\* pulse_history.json if and only if the updated registry is persisted by
\* that run.
C12_SampleIffRegistryPersisted ==
    Ran => (SampleAppended <=> Committed)

\* ------------------------------------------------------------------ C16
\* the file is missing or does not parse
Unreadable(file) == ~file.exists \/ file.corrupt

\* C16: when registry.json or pulse_history.json is missing or unparseable
\* at the start of a run, the run does not fail: the store counts as empty
\* and the run goes on to its gates and commit.
C16_StorageErrorsNotFatal ==
    (/\ Ran
     /\ audit.fault = "none"
     /\ Unreadable(audit.registry_before) \/ Unreadable(audit.pulse_before))
        => /\ audit.outcome # "raised"
           /\ Unreadable(audit.registry_before) => audit.old_wealth = 0
           /\ Unreadable(audit.pulse_before) => audit.baseline.kind = "none"

\* ------------------------------------------- overlapping process_audit calls
\* number of process_audit calls explored when calls may overlap
MaxOverlapRuns == 2

\* lines 103-144 of a call by process p: load both files, run the gates; a
\* call that returns None or raises ends here
AuditLoad(p, parsed_games, run_id, html_size_kb) ==
    LET now == clock + 1
        loc == AuditLocals(registry_file, pulse_file, parsed_games, run_id,
                           html_size_kb, now, uuid_count)
    IN  /\ inflight[p].phase = "idle"
        /\ clock' = now
        /\ IF loc.outcome = "committed"
           THEN /\ inflight' = [inflight EXCEPT ![p] =
                      [phase |-> "loaded", parsed_games |-> parsed_games,
                       run_id |-> run_id, html_size_kb |-> html_size_kb,
                       now |-> now, regfile |-> registry_file,
                       pulsefile |-> pulse_file]]
                /\ UNCHANGED audit
           ELSE /\ audit' = AuditRecord(registry_file, pulse_file, parsed_games,
                                        run_id, now, loc, loc.outcome, "none")
                /\ UNCHANGED inflight
        /\ UNCHANGED <<registry_file, pulse_file, uuid_count, live_log,
                       pulse_trace, differ, vault, librarian, sensor, calc>>

\* lines 146-208 of the call by process p: merge into the registry it
\* loaded, let update_pulse re-read and rewrite the history, replace
\* registry.json; registry_before is the file this write replaces
AuditPersist(p) ==
    /\ inflight[p].phase = "loaded"
    /\ LET c == inflight[p]
           loc == AuditLocals(c.regfile, c.pulsefile, c.parsed_games, c.run_id,
                              c.html_size_kb, c.now, uuid_count)
       IN  /\ pulse_file' = FileOf(update_pulse(pulse_file, loc.stats))
           /\ registry_file' = FileOf(loc.final)
           /\ uuid_count' = loc.drawn
           /\ live_log' = Append(live_log, loc.live_ids)
           /\ audit' = AuditRecord(registry_file, pulse_file, c.parsed_games,
                                   c.run_id, c.now, loc, "committed", "none")
    /\ inflight' = [inflight EXCEPT ![p] = IdleProc]
    /\ UNCHANGED <<clock, pulse_trace, differ, vault, librarian, sensor, calc>>

NextOverlap ==
    \E p \in Procs :
        \/ /\ clock < MaxOverlapRuns
           /\ \E parsed_games \in Batches, html_size_kb \in HtmlSizes :
                 AuditLoad(p, parsed_games, clock + 1, html_size_kb)
        \/ AuditPersist(p)

SpecOverlap == Init /\ [][NextOverlap]_vars

\* ------------------------------------------------------------------ C13
InFlight == {p \in Procs : inflight[p].phase = "loaded"}

\* C13: at most one run is between loading and persisting the registry,
\* so every committed registry still holds every entry committed before
\* it (no lost update).
C13_SingleRunInFlight ==
    /\ Cardinality(InFlight) <= 1
    /\ Committed => \A gid \in DOMAIN Before : gid \in DOMAIN After

\* ------------------------------------------------- update_pulse on its own
\* number of update_pulse calls explored
MaxPulseCalls == 20

\* lengths of the history stored before the first call
PulseStartLens == {0, 1, 198, 199, 200, 201}

\* the sample of the k-th run
SampleOf(k) == [run_id |-> k]

InitPulse ==
    /\ registry_file = NoFile(EmptyDict)
    /\ \/ pulse_file = NoFile(<< >>)
       \/ \E n \in PulseStartLens : pulse_file = FileOf([i \in 1..n |-> SampleOf(i)])
       \/ pulse_file = Truncated(FileOf(<<SampleOf(1), SampleOf(2)>>))
    /\ pulse_trace = PulseLoad(pulse_file)
    /\ clock = 0
    /\ uuid_count = 0
    /\ live_log = << >>
    /\ audit = AuditRecord(NoFile(EmptyDict), NoFile(<< >>), << >>, None, None,
                           NoLocals, "idle", "none")
    /\ inflight = [p \in Procs |-> IdleProc]
    /\ differ = NoDiffer
    /\ vault = Unused
    /\ librarian = Unused
    /\ sensor = Unused
    /\ calc = Unused

\* one call update_pulse(stats)
RecordPulse(stats) ==
    /\ pulse_file' = FileOf(update_pulse(pulse_file, stats))
    /\ pulse_trace' = Append(pulse_trace, stats)
    /\ clock' = clock + 1
    /\ UNCHANGED <<registry_file, uuid_count, live_log, audit, inflight, differ,
                   vault, librarian, sensor, calc>>

NextPulse ==
    /\ clock < MaxPulseCalls
    /\ RecordPulse(SampleOf(Len(pulse_trace) + 1))

SpecPulse == InitPulse /\ [][NextPulse]_vars

\* ------------------------------------------------------------------ C14
\* C14: after any sequence of update_pulse calls the stored history has at
\* most 200 samples and is the last min(n, 200) samples of the previous
\* history followed by the recorded samples, in insertion order.
C14_PulseWindow ==
    clock >= 1 =>
        LET h == pulse_file.data
            n == Len(pulse_trace)
            k == IF n < 200 THEN n ELSE 200
        IN  /\ pulse_file.exists /\ ~pulse_file.corrupt
            /\ Len(h) <= 200
            /\ Len(h) = k
            /\ \A i \in 1..k : h[i] = pulse_trace[n - k + i]

\* several samples have been evicted and the newest one is stored last
C14_Witness ==
    /\ clock >= 3
    /\ Len(pulse_trace) >= 203
    /\ Len(pulse_file.data) = 200
    /\ pulse_file.data[200] = pulse_trace[Len(pulse_trace)]

\* ------------------------------------------------------------------ C15
RECURSIVE FieldTotal(_, _)
\* the sum of one field over the samples of a history
FieldTotal(h, field) ==
    IF h = << >> THEN 0 ELSE Head(h)[field] + FieldTotal(Tail(h), field)

\* C15: get_statistical_baseline returns no baseline exactly when the
\* stored history is missing or has fewer than 3 samples; otherwise its
\* averages are the sums of total_wealth and of game_count over all stored
\* samples divided by sample_size, the number of stored samples.
C15_Baseline ==
    Ran =>
        LET f == audit.pulse_before
            b == audit.baseline
        IN  /\ b.kind = "none" <=> (~f.exists \/ Len(f.data) < 3)
            /\ b.kind # "none" =>
                  /\ b.kind = "some"
                  /\ b.sample_size = Len(f.data)
                  /\ b.sum_wealth = FieldTotal(f.data, "total_wealth")
                  /\ b.sum_games = FieldTotal(f.data, "game_count")

\* a call found exactly 3 stored samples of differing wealth and got a
\* baseline over all of them
C15_Witness ==
    /\ Ran
    /\ Len(audit.pulse_before.data) = 3
    /\ audit.baseline.kind = "some"
    /\ audit.baseline.sample_size = 3
    /\ audit.baseline.sum_wealth = 11
    /\ audit.pulse_before.data[1].total_wealth # audit.pulse_before.data[2].total_wealth

\* ------------------------------------------------------------ differ.py
\* JSON scalars as json.load returns them: a number or a string of characters
JInt(n) == [kind |-> "int", int |-> n, str |-> << >>]
JStr(s) == [kind |-> "str", int |-> 0, str |-> s]

DigitChar == <<"0", "1", "2", "3", "4", "5", "6", "7", "8", "9">>

RECURSIVE IntStr(_)
\* str(n) of a non-negative int
IntStr(n) ==
    IF n < 10 THEN <<DigitChar[n + 1]>>
    ELSE IntStr(n \div 10) \o <<DigitChar[(n % 10) + 1]>>

\* str(x)
PyStr(x) == IF x.kind = "int" THEN IntStr(x.int) ELSE x.str

\* int(x): a number is returned as it is, a string is parsed
PyIntOf(x) == IF x.kind = "int" THEN [ok |-> TRUE, val |-> x.int] ELSE PyInt(x.str)

NotComma(c) == c # ","

\* s.replace(",", "")
DropCommas(s) == SelectSeq(s, NotComma)

\* a dict in insertion order: a sequence of [key, game] items, keys distinct
Keys(registry) == { registry[i].key : i \in 1..Len(registry) }

\* registry[game_id]
Lookup(registry, game_id) ==
    registry[CHOOSE i \in 1..Len(registry) : registry[i].key = game_id].game

\* d.get(field, default)
DictGet(d, field, default) == IF field \in DOMAIN d THEN d[field] ELSE default

\* mutant of HashableEntry: the status is left out of the hashed content
HashableEntry_NoStatus(game) ==
    [game_id |-> DictGet(game, "game_id", None),
     prizes |-> GetPrizes(game)]

\* the dict built per game at lines 34-38
HashableEntry(game) ==
    [game_id |-> DictGet(game, "game_id", None),
     status |-> DictGet(game, "status", None),
     prizes |-> GetPrizes(game)]

\* hashable_data, in the insertion order of registry.items()
HashableData(registry) ==
    [i \in 1..Len(registry) |->
        [key |-> registry[i].key, game |-> HashableEntry(registry[i].game)]]

\* the code-point order of the keys in use
KeyRank == ("101" :> 1) @@ ("102" :> 2)

RECURSIVE SortKeys(_)
\* the items of a dict in sorted key order (sort_keys=True)
SortKeys(items) ==
    IF items = << >> THEN << >>
    ELSE LET m == CHOOSE i \in 1..Len(items) :
                      \A j \in 1..Len(items) : KeyRank[items[i].key] <= KeyRank[items[j].key]
         IN  <<items[m]>> \o SortKeys(SubSeq(items, 1, m - 1) \o SubSeq(items, m + 1, Len(items)))

\* mutant of JsonDumpsSorted: sort_keys is off, the items are serialized in
\* insertion order
JsonDumps_Unsorted(items) == items

\* json.dumps(hashable_data, sort_keys=True): the text is determined by the
\* items in sorted key order; the dicts inside an item are records, which
\* carry no field order
JsonDumpsSorted(items) == SortKeys(items)

\* hashlib.sha256(text).hexdigest()[:16], the digest treated as injective
Sha256Hex16(text) == [digest_of |-> text]

compute_data_hash(registry) == Sha256Hex16(JsonDumpsSorted(HashableData(registry)))

\* the elements of set S in the iteration order given by order
RECURSIVE IterSet(_, _)
IterSet(order, S) ==
    IF order = << >> THEN << >>
    ELSE IF Head(order) \in S THEN <<Head(order)>> \o IterSet(Tail(order), S)
    ELSE IterSet(Tail(order), S)

RECURSIVE Concat(_)
\* the concatenation of a sequence of sequences
Concat(ss) == IF ss = << >> THEN << >> ELSE Head(ss) \o Concat(Tail(ss))

\* mutant of GamesAdded: the loop runs over every id of the new registry
GamesAdded_AllNew(old_registry, new_registry, order) ==
    LET ids == IterSet(order, Keys(new_registry))
    IN  [k \in 1..Len(ids) |->
            [game_id |-> ids[k],
             game_name |-> DictGet(Lookup(new_registry, ids[k]), "game_name", "Unknown"),
             ticket_price |-> DictGet(Lookup(new_registry, ids[k]), "ticket_price", "Unknown")]]

\* the loop over new_ids - old_ids
GamesAdded(old_registry, new_registry, order) ==
    LET ids == IterSet(order, Keys(new_registry) \ Keys(old_registry))
    IN  [k \in 1..Len(ids) |->
            [game_id |-> ids[k],
             game_name |-> DictGet(Lookup(new_registry, ids[k]), "game_name", "Unknown"),
             ticket_price |-> DictGet(Lookup(new_registry, ids[k]), "ticket_price", "Unknown")]]

\* the loop over old_ids - new_ids
GamesRemoved(old_registry, new_registry, order) ==
    LET ids == IterSet(order, Keys(old_registry) \ Keys(new_registry))
    IN  [k \in 1..Len(ids) |->
            [game_id |-> ids[k],
             game_name |-> DictGet(Lookup(old_registry, ids[k]), "game_name", "Unknown")]]

\* mutant of StatusChanged: every game that is not ACTIVE in the new
\* registry is reported
StatusChanged_NotActive(old_status, new_status) == new_status # "ACTIVE"

\* old_status != new_status
StatusChanged(old_status, new_status) == old_status # new_status

\* the loop over old_ids & new_ids that compares the statuses
StatusChanges(old_registry, new_registry, order) ==
    LET ids == IterSet(order, Keys(old_registry) \cap Keys(new_registry))
        Item(gid) ==
            LET old_status == DictGet(Lookup(old_registry, gid), "status", None)
                new_status == DictGet(Lookup(new_registry, gid), "status", None)
            IN  IF StatusChanged(old_status, new_status)
                THEN << [game_id |-> gid,
                         game_name |-> DictGet(Lookup(new_registry, gid), "game_name", "Unknown"),
                         reason |-> [old_status |-> old_status, new_status |-> new_status]] >>
                ELSE << >>
    IN  Concat([k \in 1..Len(ids) |-> Item(ids[k])])

\* the number of pairs zip(old_prizes, new_prizes) yields
ZipLen(old_prizes, new_prizes) ==
    IF Len(old_prizes) < Len(new_prizes) THEN Len(old_prizes) ELSE Len(new_prizes)

\* mutant of Meaning: the two words are swapped
Meaning_Swapped(change) ==
    [amount |-> Abs(change), word |-> IF change < 0 THEN "added" ELSE "claimed"]

\* f"{abs(change)} {'claimed' if change < 0 else 'added'}"
Meaning(change) ==
    [amount |-> Abs(change), word |-> IF change < 0 THEN "claimed" ELSE "added"]

\* int(p.get("total", 0))
TierTotal(p) == PyIntOf(DictGet(p, "total", JInt(0)))

\* some int() in the prize loop raises ValueError
DeltaRaises(old_registry, new_registry) ==
    \E gid \in Keys(old_registry) \cap Keys(new_registry) :
        LET old_prizes == GetPrizes(Lookup(old_registry, gid))
            new_prizes == GetPrizes(Lookup(new_registry, gid))
        IN  \E i \in 1..ZipLen(old_prizes, new_prizes) :
                ~TierTotal(old_prizes[i]).ok \/ ~TierTotal(new_prizes[i]).ok

\* the loop over old_ids & new_ids that compares the tiers by position
PrizeChanges(old_registry, new_registry, order) ==
    LET ids == IterSet(order, Keys(old_registry) \cap Keys(new_registry))
        Entry(gid, i) ==
            LET old_p == GetPrizes(Lookup(old_registry, gid))[i]
                new_p == GetPrizes(Lookup(new_registry, gid))[i]
                old_total == TierTotal(old_p).val
                new_total == TierTotal(new_p).val
                change == new_total - old_total
            IN  IF old_total # new_total
                THEN << [game_id |-> gid,
                         game_name |-> DictGet(Lookup(new_registry, gid), "game_name", "Unknown"),
                         prize_tier |-> i - 1,
                         prize_value |-> PyStr(DictGet(old_p, "raw_value",
                                                 DictGet(old_p, "value", JStr(<<"?">>)))),
                         old_remaining |-> old_total,
                         new_remaining |-> new_total,
                         change |-> change,
                         meaning |-> Meaning(change)] >>
                ELSE << >>
        OfGame(gid) ==
            Concat([i \in 1..ZipLen(GetPrizes(Lookup(old_registry, gid)),
                                    GetPrizes(Lookup(new_registry, gid))) |-> Entry(gid, i)])
    IN  Concat([k \in 1..Len(ids) |-> OfGame(ids[k])])

\* one iteration of the try block of _calculate_total_wealth: value * count,
\* or skipped on ValueError
DifferPrizeWealth(prize) ==
    LET value == PyInt(DropCommas(PyStr(DictGet(prize, "value", JInt(0)))))
        count == PyInt(DropCommas(PyStr(DictGet(prize, "total", JInt(0)))))
    IN  IF value.ok /\ count.ok THEN value.val * count.val ELSE 0

\* differ.py: every game of registry.values()
_calculate_total_wealth(registry) ==
    SumSeq([i \in 1..Len(registry) |->
               SumSeq([j \in 1..Len(GetPrizes(registry[i].game)) |->
                          DifferPrizeWealth(GetPrizes(registry[i].game)[j])], 1)], 1)

\* the entries of prize_changes that satisfy change < 0, in order
RECURSIVE Claims(_)
Claims(prize_changes) ==
    IF prize_changes = << >> THEN << >>
    ELSE IF Head(prize_changes).change < 0
         THEN <<Head(prize_changes)>> \o Claims(Tail(prize_changes))
         ELSE Claims(Tail(prize_changes))

\* the entries with prize_tier == 0 and change < 0, in order
RECURSIVE TopClaims(_)
TopClaims(prize_changes) ==
    IF prize_changes = << >> THEN << >>
    ELSE IF Head(prize_changes).prize_tier = 0 /\ Head(prize_changes).change < 0
         THEN <<Head(prize_changes)>> \o TopClaims(Tail(prize_changes))
         ELSE TopClaims(Tail(prize_changes))

\* the sentence returned when parts is empty
NoChangesSentence == << [clause |-> "No significant changes detected"] >>

\* the clauses that "; ".join(parts) concatenates
_generate_summary(delta) ==
    LET added == delta.games_added
        retired == delta.games_retired
        changes == delta.prize_changes
        top_claims == TopClaims(changes)
        total_claims == Len(Claims(changes))
        games_with_changes == { changes[k].game_name : k \in 1..Len(changes) }
        parts ==
            (IF added # << >>
             THEN << [clause |-> "new game(s)", count |-> Len(added),
                      names |-> [k \in 1..Len(added) |-> added[k].game_name]] >>
             ELSE << >>)
            \o (IF retired # << >>
                THEN << [clause |-> "retired game(s)", count |-> Len(retired),
                         names |-> [k \in 1..Len(retired) |-> retired[k].game_name]] >>
                ELSE << >>)
            \o (IF changes # << >>
                THEN [k \in 1..Len(top_claims) |->
                         [clause |-> "TOP PRIZE", prize_value |-> top_claims[k].prize_value,
                          game_name |-> top_claims[k].game_name]]
                     \o (IF total_claims > Len(top_claims)
                         THEN << [clause |-> "other prize(s) claimed",
                                  count |-> total_claims - Len(top_claims),
                                  games |-> Cardinality(games_with_changes)] >>
                         ELSE << >>)
                ELSE << >>)
            \o (IF delta.wealth_delta # 0
                THEN << [clause |-> "Total wealth",
                         direction |-> IF delta.wealth_delta < 0 THEN "decreased" ELSE "increased",
                         amount |-> Abs(delta.wealth_delta)] >>
                ELSE << >>)
    IN  IF parts # << >> THEN parts ELSE NoChangesSentence

\* compute_delta: kind "raise" is a ValueError out of the prize loop; order
\* is the iteration order of the id sets
compute_delta(old_registry, new_registry, run_id, now, order) ==
    IF DeltaRaises(old_registry, new_registry) THEN [kind |-> "raise"]
    ELSE LET lists ==
                 [games_added |-> GamesAdded(old_registry, new_registry, order),
                  games_retired |-> GamesRemoved(old_registry, new_registry, order)
                                    \o StatusChanges(old_registry, new_registry, order),
                  prize_changes |-> PrizeChanges(old_registry, new_registry, order),
                  wealth_before |-> _calculate_total_wealth(old_registry),
                  wealth_after |-> _calculate_total_wealth(new_registry),
                  wealth_delta |-> _calculate_total_wealth(new_registry)
                                   - _calculate_total_wealth(old_registry)]
         IN  [kind |-> "delta", date |-> now, detected_at |-> now, run_id |-> run_id,
              games_added |-> lists.games_added,
              games_retired |-> lists.games_retired,
              prize_changes |-> lists.prize_changes,
              wealth_before |-> lists.wealth_before,
              wealth_after |-> lists.wealth_after,
              wealth_delta |-> lists.wealth_delta,
              summary |-> _generate_summary(lists)]

\* bool(games_added or games_retired or prize_changes)
has_meaningful_changes(delta) ==
    \/ delta.games_added # << >>
    \/ delta.games_retired # << >>
    \/ delta.prize_changes # << >>

\* --------------------------------------------- the differ on pairs of registries
\* the largest remaining count of the tiers drawn
MaxTotal == 2

\* prize tables as json.load returns them: the validated sensor writes the
\* count as a number, registry.py as a string of digits
DifferTables(gid) ==
    IF gid = "101"
    THEN {<< >>}
         \cup { << Tier(JStr(<<"4">>), JInt(i)) >> : i \in 0..MaxTotal }
         \cup { << Tier(JStr(<<"4">>), JStr(<<"1">>)) >>,
                << Tier(JStr(<<"1", ",", "0", "0", "0">>), JInt(1)) >> }
         \cup { << Tier(JStr(<<"4">>), JInt(i)), Tier(JStr(<<"2">>), JInt(MaxTotal - i)) >> :
                    i \in 0..MaxTotal }
    ELSE { << Tier(JStr(<<"4">>), JInt(1)) >>,
           << Tier(JStr(<<"4">>), JInt(1)), Tier(JStr(<<"$", "4">>), JInt(1)) >> }

\* an entry as process_audit writes it; vol selects the values of the
\* fields that do not describe the game's prizes
DifferEntry(gid, status, prizes, vol) ==
    [guid |-> vol, game_id |-> gid,
     game_name |-> IF vol = 1 THEN GameName(gid) ELSE "Renamed",
     url_slug |-> UrlSlug(gid), overall_odds |-> "Unknown",
     prizes |-> prizes, status |-> status, first_seen |-> vol,
     last_seen |-> vol + 1,
     miss_count |-> IF status = "RETIRED" THEN RetireAfter ELSE vol - 1,
     death_date |-> IF status = "RETIRED" THEN vol + 1 ELSE None,
     last_run_id |-> vol]

DifferEntries(gid) ==
    IF gid = "101"
    THEN { DifferEntry(gid, "ACTIVE", t, vol) : t \in DifferTables(gid), vol \in {1, 2} }
         \cup { DifferEntry(gid, "RETIRED", << Tier(JStr(<<"4">>), JInt(1)) >>, 1) }
    ELSE { DifferEntry(gid, "ACTIVE", t, 1) : t \in DifferTables(gid) }
         \cup { DifferEntry(gid, "RETIRED", << Tier(JStr(<<"4">>), JInt(1)) >>, 1) }

DictItem(key, game) == [key |-> key, game |-> game]

\* registries of zero, one or two games, in both insertion orders
DifferRegistries ==
    {<< >>}
    \cup { << DictItem("101", a) >> : a \in DifferEntries("101") }
    \cup { << DictItem("102", b) >> : b \in DifferEntries("102") }
    \cup { << DictItem("101", a), DictItem("102", b) >> :
               a \in DifferEntries("101"), b \in DifferEntries("102") }
    \cup { << DictItem("102", b), DictItem("101", a) >> :
               a \in DifferEntries("101"), b \in DifferEntries("102") }

\* the orders in which a set of ids may be iterated
IterOrders == { <<"101", "102">>, <<"102", "101">> }

RunIds == {"run_1"}

InitDiff ==
    /\ registry_file = NoFile(EmptyDict)
    /\ pulse_file = NoFile(<< >>)
    /\ clock = 0
    /\ uuid_count = 0
    /\ live_log = << >>
    /\ audit = AuditRecord(NoFile(EmptyDict), NoFile(<< >>), << >>, None, None,
                           NoLocals, "idle", "none")
    /\ inflight = [p \in Procs |-> IdleProc]
    /\ pulse_trace = << >>
    /\ vault = Unused
    /\ librarian = Unused
    /\ sensor = Unused
    /\ calc = Unused
    /\ \E old_registry \in DifferRegistries, new_registry \in DifferRegistries,
          run_id \in RunIds :
          differ = [phase |-> "args", old_registry |-> old_registry,
                    new_registry |-> new_registry, run_id |-> run_id]

\* compute_data_hash of both registries, as upload_to_vault compares them
HashCall ==
    /\ differ.phase = "args"
    /\ differ' = [phase |-> "hashed", old_registry |-> differ.old_registry,
                  new_registry |-> differ.new_registry, run_id |-> differ.run_id,
                  old_hash |-> compute_data_hash(differ.old_registry),
                  new_hash |-> compute_data_hash(differ.new_registry)]
    /\ UNCHANGED <<registry_file, pulse_file, clock, uuid_count, live_log, audit,
                   inflight, pulse_trace, vault, librarian, sensor, calc>>

\* compute_delta followed by has_meaningful_changes on its result
DeltaCall(order) ==
    /\ differ.phase = "args"
    /\ LET delta == compute_delta(differ.old_registry, differ.new_registry,
                                  differ.run_id, clock + 1, order)
       IN  differ' = [phase |-> "delta", old_registry |-> differ.old_registry,
                      new_registry |-> differ.new_registry, run_id |-> differ.run_id,
                      delta |-> delta,
                      meaningful |-> IF delta.kind = "delta"
                                     THEN has_meaningful_changes(delta) ELSE FALSE]
    /\ clock' = clock + 1
    /\ UNCHANGED <<registry_file, pulse_file, uuid_count, live_log, audit,
                   inflight, pulse_trace, vault, librarian, sensor, calc>>

NextDiff ==
    \/ HashCall
    \/ \E order \in IterOrders : DeltaCall(order)

SpecDiff == InitDiff /\ [][NextDiff]_vars

\* ------------------------------------------------------------------ C17
\* the two registries have the same ids and, per id, the same game_id,
\* status and prizes
SameMeaningful(R1, R2) ==
    /\ Keys(R1) = Keys(R2)
    /\ \A id \in Keys(R1) :
          /\ Lookup(R1, id).game_id = Lookup(R2, id).game_id
          /\ Lookup(R1, id).status = Lookup(R2, id).status
          /\ Lookup(R1, id).prizes = Lookup(R2, id).prizes

\* C17: registries with the same ids and, per id, the same game_id, status
\* and prizes have the same compute_data_hash, whatever the insertion order
\* of their keys and the values of their other fields.
C17_HashBlindToVolatile ==
    (differ.phase = "hashed" /\ SameMeaningful(differ.old_registry, differ.new_registry))
        => differ.old_hash = differ.new_hash

\* two registries with their keys in opposite orders and every volatile
\* field of game 101 different hash alike
C17_Witness ==
    /\ differ.phase = "hashed"
    /\ Len(differ.old_registry) = 2 /\ Len(differ.new_registry) = 2
    /\ differ.old_registry[1].key = differ.new_registry[2].key
    /\ SameMeaningful(differ.old_registry, differ.new_registry)
    /\ LET a == Lookup(differ.old_registry, "101")
           b == Lookup(differ.new_registry, "101")
       IN  /\ a.last_seen # b.last_seen /\ a.first_seen # b.first_seen
           /\ a.last_run_id # b.last_run_id /\ a.guid # b.guid
           /\ a.miss_count # b.miss_count /\ a.game_name # b.game_name
           /\ a.prizes # << >>
    /\ differ.old_hash = differ.new_hash

\* ------------------------------------------------------------------ C18
\* C18: registries that differ in an id, in a status or in the value or the
\* remaining count of a prize tier have different hashed content, so their
\* fingerprints differ (the digest being injective).
C18_HashSensitive ==
    (differ.phase = "hashed" /\ ~SameMeaningful(differ.old_registry, differ.new_registry))
        => differ.old_hash # differ.new_hash

\* the two registries differ in nothing but the remaining count of the one
\* tier of game 101, and hash differently
C18_Witness ==
    /\ differ.phase = "hashed"
    /\ Len(differ.old_registry) = 2 /\ Len(differ.new_registry) = 2
    /\ differ.old_registry[2] = differ.new_registry[2]
    /\ differ.old_registry[1].key = "101" /\ differ.new_registry[1].key = "101"
    /\ LET a == differ.old_registry[1].game
           b == differ.new_registry[1].game
       IN  /\ Len(a.prizes) = 1 /\ Len(b.prizes) = 1
           /\ a.prizes[1].value = b.prizes[1].value
           /\ a.prizes[1].total = JInt(1) /\ b.prizes[1].total = JInt(2)
           /\ [a EXCEPT !.prizes = b.prizes] = b
    /\ differ.old_hash # differ.new_hash

\* ------------------------------------------------------------------ C19
\* C19: compute_delta(R, R, run_id) has empty games_added, games_retired
\* and prize_changes and wealth_delta = 0, and has_meaningful_changes of it
\* is false.
C19_DeltaOfSameRegistry ==
    (differ.phase = "delta" /\ differ.old_registry = differ.new_registry)
        => /\ differ.delta.kind = "delta"
           /\ differ.delta.games_added = << >>
           /\ differ.delta.games_retired = << >>
           /\ differ.delta.prize_changes = << >>
           /\ differ.delta.wealth_delta = 0
           /\ ~differ.meaningful

\* the delta of a registry with itself, the registry holding a RETIRED game
\* and a game with two tiers of positive wealth
C19_Witness ==
    /\ differ.phase = "delta"
    /\ differ.old_registry = differ.new_registry
    /\ Len(differ.old_registry) = 2
    /\ Lookup(differ.old_registry, "102").status = "RETIRED"
    /\ Len(Lookup(differ.old_registry, "101").prizes) = 2
    /\ differ.delta.kind = "delta"
    /\ differ.delta.wealth_before > 0
    /\ ~differ.meaningful

\* ------------------------------------------------------------------ C20
\* the remaining count of tier i (from 1) of game id in registry R
Remaining(R, id, i) == PyIntOf(Lookup(R, id).prizes[i].total).val

\* id is in both registries, both have a tier i, and the counts differ
TierChanged(old, new, id, i) ==
    /\ id \in Keys(old) /\ id \in Keys(new)
    /\ i >= 1 /\ i <= Len(Lookup(old, id).prizes) /\ i <= Len(Lookup(new, id).prizes)
    /\ Remaining(old, id, i) # Remaining(new, id, i)

\* C20: prize_changes has exactly one entry for every (id, i) with id in
\* both registries, i below the tier count of both and differing remaining
\* counts at index i, and no other entry; an entry carries old_remaining,
\* new_remaining and change = new_remaining - old_remaining and is
\* classified claimed when change < 0 and added when change > 0.
C20_PrizeChanges ==
    differ.phase = "delta" =>
        LET old == differ.old_registry
            new == differ.new_registry
            pc == differ.delta.prize_changes
        IN  /\ differ.delta.kind = "delta"
            /\ \A id \in Keys(old) :
                  \A i \in 1..Len(Lookup(old, id).prizes) :
                      TierChanged(old, new, id, i) =>
                          Cardinality({ k \in 1..Len(pc) :
                              pc[k].game_id = id /\ pc[k].prize_tier = i - 1 }) = 1
            /\ \A k \in 1..Len(pc) :
                  /\ TierChanged(old, new, pc[k].game_id, pc[k].prize_tier + 1)
                  /\ pc[k].old_remaining = Remaining(old, pc[k].game_id, pc[k].prize_tier + 1)
                  /\ pc[k].new_remaining = Remaining(new, pc[k].game_id, pc[k].prize_tier + 1)
                  /\ pc[k].change = pc[k].new_remaining - pc[k].old_remaining
                  /\ pc[k].change < 0 => pc[k].meaning.word = "claimed"
                  /\ pc[k].change > 0 => pc[k].meaning.word = "added"

\* game 101 has one tier whose count rose and one whose count fell, game
\* 102 got a second tier that the old snapshot lacks: two entries
C20_Witness ==
    /\ differ.phase = "delta"
    /\ differ.delta.kind = "delta"
    /\ Len(differ.old_registry) = 2 /\ Len(differ.new_registry) = 2
    /\ Len(Lookup(differ.old_registry, "102").prizes) = 1
    /\ Len(Lookup(differ.new_registry, "102").prizes) = 2
    /\ Len(differ.delta.prize_changes) = 2
    /\ \E k \in 1..2 : /\ differ.delta.prize_changes[k].change > 0
                       /\ differ.delta.prize_changes[k].meaning.word = "added"
                       /\ differ.delta.prize_changes[k].prize_tier = 0
    /\ \E k \in 1..2 : /\ differ.delta.prize_changes[k].change < 0
                       /\ differ.delta.prize_changes[k].meaning.word = "claimed"
                       /\ differ.delta.prize_changes[k].prize_tier = 1

\* ------------------------------------------------------------------ C21
\* the positions of list whose item is about game id
ItemsOf(list, id) == { k \in 1..Len(list) : list[k].game_id = id }

\* C21: games_added has exactly one item per id in new and not in old;
\* games_retired has exactly one item per id in old and not in new, and
\* exactly one item, carrying a status-transition reason, per id in both
\* whose status differs; there are no other items, so no id is in both
\* lists or twice in one.
C21_AddedAndRetired ==
    differ.phase = "delta" =>
        LET old == differ.old_registry
            new == differ.new_registry
            added == differ.delta.games_added
            retired == differ.delta.games_retired
            Turned(id) == /\ id \in Keys(old) \cap Keys(new)
                          /\ Lookup(old, id).status # Lookup(new, id).status
        IN  /\ differ.delta.kind = "delta"
            /\ \A id \in GameIds :
                  /\ Cardinality(ItemsOf(added, id)) =
                        (IF id \in Keys(new) \ Keys(old) THEN 1 ELSE 0)
                  /\ Cardinality(ItemsOf(retired, id)) =
                        (IF id \in Keys(old) \ Keys(new) \/ Turned(id) THEN 1 ELSE 0)
                  /\ ItemsOf(added, id) = {} \/ ItemsOf(retired, id) = {}
            /\ \A k \in 1..Len(retired) :
                  ("reason" \in DOMAIN retired[k]) <=> Turned(retired[k].game_id)
            /\ \A k \in 1..Len(retired) :
                  "reason" \in DOMAIN retired[k] =>
                      /\ retired[k].reason.old_status = Lookup(old, retired[k].game_id).status
                      /\ retired[k].reason.new_status = Lookup(new, retired[k].game_id).status

\* game 102 is new and game 101 went from ACTIVE to RETIRED: one item in
\* each list, the retired one with its reason
C21_Witness ==
    /\ differ.phase = "delta"
    /\ differ.delta.kind = "delta"
    /\ Keys(differ.old_registry) = {"101"}
    /\ Keys(differ.new_registry) = {"101", "102"}
    /\ Len(differ.delta.games_added) = 1
    /\ differ.delta.games_added[1].game_id = "102"
    /\ Len(differ.delta.games_retired) = 1
    /\ differ.delta.games_retired[1].game_id = "101"
    /\ differ.delta.games_retired[1].reason = [old_status |-> "ACTIVE", new_status |-> "RETIRED"]

\* ------------------------------------------------------------------ C22
\* the wealth of the tiers of the ACTIVE entries of registry R
ActiveWealth(R) ==
    SumSeq([i \in 1..Len(R) |->
               IF R[i].game.status = "ACTIVE"
               THEN SumSeq([j \in 1..Len(R[i].game.prizes) |->
                               DifferPrizeWealth(R[i].game.prizes[j])], 1)
               ELSE 0], 1)

\* C22: wealth_before and wealth_after of compute_delta are the wealth of
\* the old and of the new snapshot over ACTIVE entries only, and
\* wealth_delta is their difference.
C22_WealthOverActiveOnly ==
    (differ.phase = "delta" /\ differ.delta.kind = "delta") =>
        /\ differ.delta.wealth_before = ActiveWealth(differ.old_registry)
        /\ differ.delta.wealth_after = ActiveWealth(differ.new_registry)
        /\ differ.delta.wealth_delta =
              differ.delta.wealth_after - differ.delta.wealth_before

\* ------------------------------------------- the wealth calculators on their own
\* the largest remaining count of the tiers drawn
MaxCount == 2

NotCurrencyMark(c) == c # "$" /\ c # ","

\* the position of the first "." of s, or 0
RECURSIVE PointAt(_, _)
PointAt(s, i) ==
    IF i > Len(s) THEN 0 ELSE IF s[i] = "." THEN i ELSE PointAt(s, i + 1)

AllDigits(s) == \A i \in 1..Len(s) : IsDigit(s[i])

\* s.strip()
Strip(s) ==
    LET inked == { i \in 1..Len(s) : s[i] # " " }
    IN  IF inked = {} THEN << >>
        ELSE SubSeq(s, CHOOSE i \in inked : \A j \in inked : i <= j,
                       CHOOSE i \in inked : \A j \in inked : j <= i)

\* Decimal(cleaned) of an unsigned plain numeral, InvalidOperation otherwise;
\* the amount is kept in hundredths (fractions of up to two digits), text is
\* str() of the Decimal
DecimalOf(cleaned) ==
    LET p == PointAt(cleaned, 1)
        whole == IF p = 0 THEN cleaned ELSE SubSeq(cleaned, 1, p - 1)
        frac == IF p = 0 THEN << >> ELSE SubSeq(cleaned, p + 1, Len(cleaned))
        bad == [ok |-> FALSE, hundredths |-> 0, text |-> << >>]
    IN  IF cleaned = << >> THEN bad
        ELSE IF ~AllDigits(whole) \/ ~AllDigits(frac) THEN bad
        ELSE IF whole = << >> /\ frac = << >> THEN bad
        ELSE IF Len(frac) > 2 THEN bad
        ELSE [ok |-> TRUE,
              hundredths |-> 100 * DigitsValue(whole)
                             + (IF Len(frac) = 1 THEN 10 * DigitsValue(frac)
                                ELSE DigitsValue(frac)),
              text |-> IntStr(DigitsValue(whole))
                       \o (IF frac = << >> THEN << >> ELSE <<".">> \o frac)]

\* Prize.parse_currency on a string: "$" and "," removed, stripped, then
\* Decimal()
parse_currency(v) == DecimalOf(Strip(SelectSeq(v, NotCurrencyMark)))

\* prize rows as they may stand in a registry: a whole-dollar value with
\* each count, a row without value, a row without total, a value and a
\* total that are no numbers, and a value with cents
WealthTiers ==
    { Tier(<<"$", "4">>, IntStr(i)) : i \in 0..MaxCount }
    \cup { [total |-> <<"1">>], [value |-> <<"$", "4">>],
           Tier(<<"T">>, <<"5">>), Tier(<<"$", "4">>, <<"x">>),
           Tier(<<"4", ".", "5", "0">>, <<"1">>) }

WealthTables ==
    {<< >>} \cup { <<t>> : t \in WealthTiers }
            \cup { <<Tier(<<"$", "3">>, <<"1">>), t>> : t \in WealthTiers }

\* entries with the fields the calculators read
WealthEntries(gid) ==
    IF gid = "101"
    THEN { [game_id |-> gid, status |-> st, prizes |-> t] :
               st \in {"ACTIVE", "RETIRED"}, t \in WealthTables }
         \cup { [game_id |-> gid, status |-> "ACTIVE"] }
    ELSE { [game_id |-> gid, status |-> st, prizes |-> <<Tier(<<"$", "4">>, <<"1">>)>>] :
               st \in {"ACTIVE", "RETIRED"} }

WealthRegistries ==
    {EmptyDict}
    \cup { ("101" :> a) : a \in WealthEntries("101") }
    \cup { ("101" :> a) @@ ("102" :> b) :
               a \in WealthEntries("101"), b \in WealthEntries("102") }

InitWealth ==
    /\ registry_file = NoFile(EmptyDict)
    /\ pulse_file = NoFile(<< >>)
    /\ clock = 0
    /\ uuid_count = 0
    /\ live_log = << >>
    /\ audit = AuditRecord(NoFile(EmptyDict), NoFile(<< >>), << >>, None, None,
                           NoLocals, "idle", "none")
    /\ inflight = [p \in Procs |-> IdleProc]
    /\ pulse_trace = << >>
    /\ differ = NoDiffer
    /\ vault = Unused
    /\ librarian = Unused
    /\ sensor = Unused
    /\ \E registry \in WealthRegistries : calc = [phase |-> "args", registry |-> registry]

\* calculate_total_wealth and calculate_top_prize_sum of one registry
WealthCall ==
    /\ calc.phase = "args"
    /\ calc' = [phase |-> "done", registry |-> calc.registry,
                total_wealth |-> calculate_total_wealth(calc.registry),
                top_prize_sum |-> calculate_top_prize_sum(calc.registry)]
    /\ UNCHANGED <<registry_file, pulse_file, clock, uuid_count, live_log, audit,
                   inflight, pulse_trace, differ, vault, librarian, sensor>>

NextWealth == WealthCall

SpecWealth == InitWealth /\ [][NextWealth]_vars

\* ------------------------------------------------------------------ C29
\* value * remaining count of one row, in hundredths; 0 when the value or
\* the count is missing or is no number
TierHundredths(prize) ==
    IF "value" \notin DOMAIN prize \/ "total" \notin DOMAIN prize THEN 0
    ELSE IF ~parse_currency(prize.value).ok \/ ~PyInt(prize.total).ok THEN 0
    ELSE parse_currency(prize.value).hundredths * PyInt(prize.total).val

\* C29: calculate_total_wealth is the sum over the ACTIVE entries and all
\* their tiers of value * remaining count, a tier with a missing or
\* non-numeric value or count counting 0, and RETIRED entries counting 0.
C29_TotalWealth ==
    calc.phase = "done" =>
        100 * calc.total_wealth =
            SumOver([gid \in DOMAIN calc.registry |->
                        IF calc.registry[gid].status = "ACTIVE"
                        THEN SumSeq([j \in 1..Len(GetPrizes(calc.registry[gid])) |->
                                        TierHundredths(GetPrizes(calc.registry[gid])[j])], 1)
                        ELSE 0],
                    DOMAIN calc.registry)

\* ------------------------------------------------------------------ C30
\* the last record of the batch that carries game id
LastRecord(games, id) ==
    games[CHOOSE i \in 1..Len(games) :
              /\ games[i].game_id = id
              /\ \A j \in (i + 1)..Len(games) : games[j].game_id # id]

\* C30: after a committed run every id of the batch is a key of the
\* registry, and its entry is ACTIVE with miss_count 0, the run's run_id
\* and timestamp, and the prizes of the last record of the batch with that
\* id.
C30_BatchEntriesAfterCommit ==
    Committed =>
        \A i \in 1..Len(audit.parsed_games) :
            LET id == audit.parsed_games[i].game_id
            IN  /\ id \in DOMAIN After
                /\ After[id].game_id = id
                /\ After[id].status = "ACTIVE"
                /\ After[id].miss_count = 0
                /\ After[id].last_run_id = audit.run_id
                /\ After[id].last_seen = audit.now
                /\ After[id].prizes = LastRecord(audit.parsed_games, id).prizes

\* a committed run whose batch lists game 101 twice with different prizes,
\* the game being in the registry before with a miss: one entry, holding
\* the prizes of the second record
C30_Witness ==
    /\ Committed
    /\ Len(audit.parsed_games) = 2
    /\ audit.parsed_games[1].game_id = "101"
    /\ audit.parsed_games[2].game_id = "101"
    /\ audit.parsed_games[1].prizes # audit.parsed_games[2].prizes
    /\ "101" \in DOMAIN Before
    /\ Before["101"].miss_count > 0
    /\ After["101"].prizes = audit.parsed_games[2].prizes
    /\ After["101"].miss_count = 0
    /\ After["101"].last_run_id = audit.run_id

\* ------------------------------------------------------------- vault.py
\* the number of entries changelog["entries"][:90] keeps
ChangelogKeep == 90

\* mutant of FirstN: s[-n:], the newest entries are the ones dropped
FirstN_Tail(s, n) == IF Len(s) > n THEN SubSeq(s, Len(s) - n + 1, Len(s)) ELSE s

\* s[:n]
FirstN(s, n) == IF Len(s) > n THEN SubSeq(s, 1, n) ELSE s

\* the entry _update_changelog builds from a delta
ChangelogEntry(delta) ==
    [date |-> delta.date, detected_at |-> delta.detected_at, run_id |-> delta.run_id,
     wealth_before |-> delta.wealth_before, wealth_after |-> delta.wealth_after,
     wealth_delta |-> delta.wealth_delta,
     games_added |-> Len(delta.games_added),
     games_retired |-> Len(delta.games_retired),
     prizes_changed |-> Len(delta.prize_changes),
     summary |-> delta.summary]

\* the entries of the changelog.json object of the bucket; a missing or
\* unparseable object gives the fresh changelog of the except branch
ChangelogLoad(object) == IF object.exists /\ ~object.corrupt THEN object.data ELSE << >>

\* the entries _update_changelog uploads
_update_changelog(object, delta) ==
    FirstN(<<ChangelogEntry(delta)>> \o ChangelogLoad(object), ChangelogKeep)

\* the bucket and the hash cache before the first run
EmptyVault ==
    [live |-> NoFile(<< >>), snapshots |-> << >>, deltas |-> << >>,
     changelog |-> NoFile(<< >>), cache |-> [exists |-> FALSE, hash |-> None],
     call |-> [phase |-> "idle"]]

\* the s3 calls and the cache write that may raise in a run
VaultFaults == {"none", "live", "previous", "snapshot", "save_hash", "evidence"}

\* mutant of DataChanged: every run counts as a change
DataChanged_Always(cache, current_hash) == TRUE

\* mutant of DataChanged: no run counts as a change
DataChanged_Never(cache, current_hash) == FALSE

\* previous_hash != current_hash, previous_hash being None without a cache
DataChanged(cache, current_hash) == ~cache.exists \/ cache.hash # current_hash

\* the snapshot upload is reached and does not raise
SnapshotArchived(reached, fault) == reached /\ fault # "snapshot"

\* mutant of HashSaved: the hash is saved before the snapshot is uploaded
HashSaved_BeforeSnapshot(reached, fault) == reached /\ fault # "save_hash"

\* save_cached_hash runs after the snapshot upload and does not raise
HashSaved(reached, fault) == SnapshotArchived(reached, fault) /\ fault # "save_hash"

\* upload_to_vault(run_id, ..., registry_path), the file at registry_path
\* holding registry; order is the iteration order compute_delta meets
upload_to_vault(run_id, registry, credentials, fault, order) ==
    LET current_hash == compute_data_hash(registry)
        data_changed == DataChanged(vault.cache, current_hash)
        live_ok == credentials /\ fault # "live"
        live == IF live_ok THEN FileOf(registry) ELSE vault.live
        previous_registry ==
            IF fault = "previous" \/ ~live.exists \/ live.corrupt THEN << >> ELSE live.data
        compared == live_ok /\ data_changed /\ previous_registry # << >>
        delta == compute_delta(previous_registry, registry, run_id, clock + 1, order)
        delta_raises == compared /\ delta.kind = "raise"
        meaningful == compared /\ ~delta_raises /\ has_meaningful_changes(delta)
        reached == live_ok /\ data_changed /\ ~delta_raises
        snapshot_ok == SnapshotArchived(reached, fault)
        hash_ok == HashSaved(reached, fault)
        evidence_ok == /\ live_ok /\ ~delta_raises
                       /\ data_changed => hash_ok
                       /\ fault # "evidence"
    IN  vault' =
            [live |-> live,
             deltas |-> IF meaningful THEN Append(vault.deltas, delta) ELSE vault.deltas,
             changelog |-> IF meaningful
                           THEN FileOf(_update_changelog(vault.changelog, delta))
                           ELSE vault.changelog,
             snapshots |-> IF snapshot_ok
                           THEN Append(vault.snapshots,
                                       [run_id |-> run_id, registry |-> registry])
                           ELSE vault.snapshots,
             cache |-> IF hash_ok THEN [exists |-> TRUE, hash |-> current_hash]
                       ELSE vault.cache,
             call |-> [phase |-> "done", run_id |-> run_id, registry |-> registry,
                       credentials |-> credentials, fault |-> fault,
                       before |-> [vault EXCEPT !.call = [phase |-> "idle"]],
                       current_hash |-> current_hash,
                       data_changed |-> data_changed,
                       compared |-> compared,
                       previous_registry |-> previous_registry,
                       result |-> evidence_ok]]

\* ------------------------------------------------ runs of upload_to_vault
\* number of upload_to_vault calls explored
MaxVaultRuns == 3

\* the registries handed to the vault: empty, game 101 with one prize left,
\* the same with other volatile fields, and game 101 with the prize claimed
VaultRegistries ==
    { << >>,
      << DictItem("101", DifferEntry("101", "ACTIVE", << Tier(JStr(<<"4">>), JInt(1)) >>, 1)) >>,
      << DictItem("101", DifferEntry("101", "ACTIVE", << Tier(JStr(<<"4">>), JInt(1)) >>, 2)) >>,
      << DictItem("101", DifferEntry("101", "ACTIVE", << Tier(JStr(<<"4">>), JInt(0)) >>, 2)) >> }

InitVault ==
    /\ registry_file = NoFile(EmptyDict)
    /\ pulse_file = NoFile(<< >>)
    /\ clock = 0
    /\ uuid_count = 0
    /\ live_log = << >>
    /\ audit = AuditRecord(NoFile(EmptyDict), NoFile(<< >>), << >>, None, None,
                           NoLocals, "idle", "none")
    /\ inflight = [p \in Procs |-> IdleProc]
    /\ pulse_trace = << >>
    /\ differ = NoDiffer
    /\ vault = EmptyVault
    /\ librarian = Unused
    /\ sensor = Unused
    /\ calc = Unused

\* one call of upload_to_vault; without credentials nothing can fail
VaultRun ==
    /\ clock < MaxVaultRuns
    /\ \E registry \in VaultRegistries, fault \in VaultFaults,
          credentials \in BOOLEAN, order \in IterOrders :
          /\ credentials \/ fault = "none"
          /\ upload_to_vault(clock + 1, registry, credentials, fault, order)
    /\ clock' = clock + 1
    /\ UNCHANGED <<registry_file, pulse_file, uuid_count, live_log, audit,
                   inflight, pulse_trace, differ, librarian, sensor, calc>>

NextVault == VaultRun

SpecVault == InitVault /\ [][NextVault]_vars

\* the latest call got past the credentials check
Synced == vault.call.phase = "done" /\ vault.call.credentials

\* the cached fingerprint equalled that of the registry of the latest call
SameFingerprint ==
    /\ vault.call.before.cache.exists
    /\ vault.call.before.cache.hash = compute_data_hash(vault.call.registry)

\* ------------------------------------------------------------------ C23
\* C23: a run whose registry has the cached fingerprint refreshes the live
\* registry.json and writes no dated snapshot, no delta report and no
\* changelog entry, and leaves the cached fingerprint as it was.
C23_DedupSkip ==
    (Synced /\ SameFingerprint) =>
        /\ vault.snapshots = vault.call.before.snapshots
        /\ vault.deltas = vault.call.before.deltas
        /\ vault.changelog = vault.call.before.changelog
        /\ vault.cache = vault.call.before.cache
        /\ vault.call.fault # "live" => vault.live = FileOf(vault.call.registry)

\* a run with the cached fingerprint but other volatile fields replaced the
\* live registry and archived nothing
C23_Witness ==
    /\ Synced /\ SameFingerprint
    /\ vault.call.fault = "none"
    /\ vault.call.result
    /\ vault.call.before.live.exists
    /\ vault.call.before.live.data # vault.call.registry
    /\ vault.live.data = vault.call.registry
    /\ Len(vault.snapshots) = 1
    /\ vault.snapshots = vault.call.before.snapshots

\* ------------------------------------------------------------------ C24
\* C24: when the fingerprint changed, the old snapshot handed to
\* compute_delta is the registry that was at the live pointer before this
\* run refreshed it.
C24_DeltaAgainstPreviousLive ==
    (Synced /\ vault.call.compared) =>
        /\ vault.call.before.live.exists
        /\ vault.call.previous_registry = vault.call.before.live.data

\* ------------------------------------------------------------------ C25
\* C25: a dated snapshot or a delta report is written only in runs whose
\* fingerprint differs from the cached one, and every such run that
\* completes without a storage error has archived the snapshot and set the
\* cached fingerprint to the current one.
C25_ArchiveOnChangeOnly ==
    Synced =>
        /\ (vault.snapshots # vault.call.before.snapshots
              \/ vault.deltas # vault.call.before.deltas) => ~SameFingerprint
        /\ (~SameFingerprint /\ vault.call.result) =>
              /\ vault.snapshots =
                    Append(vault.call.before.snapshots,
                           [run_id |-> vault.call.run_id, registry |-> vault.call.registry])
              /\ vault.cache.exists
              /\ vault.cache.hash = compute_data_hash(vault.call.registry)

\* a run whose fingerprint differs from a cached one completed, archived a
\* second snapshot and replaced the cached fingerprint
C25_Witness ==
    /\ Synced
    /\ vault.call.before.cache.exists
    /\ ~SameFingerprint
    /\ vault.call.result
    /\ Len(vault.snapshots) = 2
    /\ vault.snapshots[2].registry = vault.call.registry
    /\ vault.cache.hash # vault.call.before.cache.hash

\* ---------------------------------------------- _update_changelog on its own
\* number of _update_changelog calls explored
MaxChangelogUpdates == 20

\* numbers of entries in changelog.json before the first call
ChangelogStartLens == {0, 1, 88, 89, 90}

\* the delta of run k: nothing changed, told apart by its run_id
DeltaOf(k) == compute_delta(<< >>, << >>, k, k, <<"101", "102">>)

\* entries k, k - 1, .. 1: newest first
EntriesDownFrom(k) == [i \in 1..k |-> ChangelogEntry(DeltaOf(k + 1 - i))]

InitChangelog ==
    /\ registry_file = NoFile(EmptyDict)
    /\ pulse_file = NoFile(<< >>)
    /\ clock = 0
    /\ uuid_count = 0
    /\ live_log = << >>
    /\ audit = AuditRecord(NoFile(EmptyDict), NoFile(<< >>), << >>, None, None,
                           NoLocals, "idle", "none")
    /\ inflight = [p \in Procs |-> IdleProc]
    /\ pulse_trace = << >>
    /\ differ = NoDiffer
    /\ librarian = Unused
    /\ sensor = Unused
    /\ calc = Unused
    /\ \E start \in { NoFile(<< >>), Truncated(FileOf(EntriesDownFrom(2))) }
                    \cup { FileOf(EntriesDownFrom(n)) : n \in ChangelogStartLens } :
          vault = [EmptyVault EXCEPT
                      !.changelog = start,
                      !.call = [phase |-> "changelog", updates |-> 0,
                                trace |-> ChangelogLoad(start)]]

\* one call _update_changelog(s3, bucket, delta); trace keeps every entry
\* ever inserted, newest first
ChangelogUpdate ==
    /\ vault.call.updates < MaxChangelogUpdates
    /\ LET delta == DeltaOf(Len(vault.call.trace) + 1)
       IN  vault' = [vault EXCEPT
                        !.changelog = FileOf(_update_changelog(vault.changelog, delta)),
                        !.call = [phase |-> "changelog",
                                  updates |-> vault.call.updates + 1,
                                  trace |-> <<ChangelogEntry(delta)>> \o vault.call.trace]]
    /\ UNCHANGED <<registry_file, pulse_file, clock, uuid_count, live_log, audit,
                   inflight, pulse_trace, differ, librarian, sensor, calc>>

NextChangelog == ChangelogUpdate

SpecChangelog == InitChangelog /\ [][NextChangelog]_vars

\* ------------------------------------------------------------------ C26
\* C26: after any sequence of updates the changelog has at most 90
\* entries, newest first: it is the first min(n, 90) of all entries ever
\* inserted, taken from the newest, the newest at position 0.
C26_ChangelogWindow ==
    (vault.call.phase = "changelog" /\ vault.call.updates >= 1) =>
        LET entries == vault.changelog.data
            n == Len(vault.call.trace)
            k == IF n < 90 THEN n ELSE 90
        IN  /\ vault.changelog.exists /\ ~vault.changelog.corrupt
            /\ Len(entries) <= 90
            /\ Len(entries) = k
            /\ \A i \in 1..k : entries[i] = vault.call.trace[i]
            /\ \A i \in 1..(k - 1) : entries[i].run_id > entries[i + 1].run_id

\* three updates on a full changelog: the three oldest entries are gone and
\* the newest entry stands first
C26_Witness ==
    /\ vault.call.phase = "changelog"
    /\ vault.call.updates >= 3
    /\ Len(vault.call.trace) >= 93
    /\ Len(vault.changelog.data) = 90
    /\ vault.changelog.data[1].run_id = Len(vault.call.trace)
    /\ vault.changelog.data[90].run_id = Len(vault.call.trace) - 89

\* -------------------------------------------------------------- main.py
\* number of start_librarian invocations explored
MaxInvocations == 2

max_strikes == 3

\* mutant of LastStrike: one more attempt is allowed
LastStrike_Late(strike) == ~(strike < max_strikes + 1)

\* not (strike < max_strikes)
LastStrike(strike) == ~(strike < max_strikes)

\* start_librarian at the top of its first loop iteration
Started(invocation) ==
    [phase |-> "running", invocation |-> invocation, strike |-> 1,
     sensor_calls |-> 0, audit_calls |-> 0, commits |-> 0, vault_calls |-> 0,
     exit_status |-> None]

InitMain ==
    /\ registry_file = NoFile(EmptyDict)
    /\ pulse_file = NoFile(<< >>)
    /\ clock = 0
    /\ uuid_count = 0
    /\ live_log = << >>
    /\ audit = AuditRecord(NoFile(EmptyDict), NoFile(<< >>), << >>, None, None,
                           NoLocals, "idle", "none")
    /\ inflight = [p \in Procs |-> IdleProc]
    /\ pulse_trace = << >>
    /\ differ = NoDiffer
    /\ vault = Unused
    /\ librarian = Started(1)
    /\ sensor = Unused
    /\ calc = Unused

\* the writes of process_audit that raise in the runs of main.py explored
MainFaults == {"none", "registry_dump"}

\* a loop iteration in which capture_session returns None
StrikeWithoutCapture ==
    /\ librarian.phase = "running"
    /\ librarian' =
          IF ~LastStrike(librarian.strike)
          THEN [librarian EXCEPT !.strike = @ + 1, !.sensor_calls = @ + 1]
          ELSE [librarian EXCEPT !.sensor_calls = @ + 1,
                                 !.phase = "exited", !.exit_status = 1]
    /\ UNCHANGED <<registry_file, pulse_file, clock, uuid_count, live_log, audit,
                   inflight, pulse_trace, differ, vault, sensor, calc>>

\* a loop iteration with a capture: process_audit, then either the retry
\* or the exit, or the vault and the return; an exception of process_audit
\* (fault names the write that raises, if any) leaves through the handler
\* of __main__
StrikeWithCapture(games, html_size_kb, fault, sync_success) ==
    /\ librarian.phase = "running"
    /\ AuditEffects(games, clock + 1, html_size_kb, fault)
    /\ librarian' =
          LET seen == [librarian EXCEPT !.sensor_calls = @ + 1, !.audit_calls = @ + 1]
          IN  IF audit'.outcome = "raised"
              THEN [seen EXCEPT !.phase = "exited", !.exit_status = 1]
              ELSE IF audit'.outcome = "aborted"
              THEN IF ~LastStrike(librarian.strike)
                   THEN [seen EXCEPT !.strike = @ + 1]
                   ELSE [seen EXCEPT !.phase = "exited", !.exit_status = 1]
              ELSE [seen EXCEPT !.commits = @ + 1, !.vault_calls = @ + 1,
                                !.phase = "returned"]
    /\ vault' = IF audit'.outcome = "committed"
                THEN [phase |-> "called", run_id |-> clock + 1, result |-> sync_success]
                ELSE vault
    /\ UNCHANGED <<inflight, pulse_trace, differ, sensor, calc>>

\* the next scheduled invocation of main.py
NextInvocation ==
    /\ librarian.phase \in {"returned", "exited"}
    /\ librarian.invocation < MaxInvocations
    /\ librarian' = Started(librarian.invocation + 1)
    /\ UNCHANGED <<registry_file, pulse_file, clock, uuid_count, live_log, audit,
                   inflight, pulse_trace, differ, vault, sensor, calc>>

NextMain ==
    \/ StrikeWithoutCapture
    \/ \E games \in Batches, html_size_kb \in HtmlSizes, fault \in MainFaults,
          sync_success \in BOOLEAN :
          StrikeWithCapture(games, html_size_kb, fault, sync_success)
    \/ NextInvocation

SpecMain == InitMain /\ [][NextMain]_vars

\* ------------------------------------------------------------------ C27
\* C27: an invocation of start_librarian makes at most 3 attempts, each a
\* sensor call followed, when it captured, by process_audit; it stops at
\* the first attempt whose audit commits, so it commits at most once and
\* calls the vault only after a commit and at most once; after a 3rd
\* failed attempt it exits with a failure status without calling the vault.
C27_ThreeStrikes ==
    /\ librarian.sensor_calls <= 3
    /\ librarian.strike <= 3
    /\ librarian.audit_calls <= librarian.sensor_calls
    /\ librarian.commits <= 1
    /\ librarian.vault_calls = librarian.commits
    /\ librarian.phase = "running" =>
          /\ librarian.commits = 0
          /\ librarian.sensor_calls = librarian.strike - 1
    /\ librarian.sensor_calls = 3 => librarian.phase # "running"
    /\ librarian.commits = 1 => librarian.phase = "returned"
    /\ librarian.phase = "returned" => (librarian.commits = 1 /\ Committed)
    /\ librarian.phase = "exited" =>
          /\ librarian.exit_status = 1
          /\ librarian.vault_calls = 0
          /\ librarian.commits = 0

\* an invocation that lost one attempt to the sensor and two to the hard
\* gate and exited with status 1, the vault not called
C27_Witness ==
    /\ librarian.phase = "exited"
    /\ librarian.exit_status = 1
    /\ librarian.sensor_calls = 3
    /\ librarian.audit_calls = 2
    /\ Aborted
    /\ librarian.vault_calls = 0

\* ------------------------------------------------------------ sensor_nc.py
\* the longest run of varied boxes on a page
MaxVaried == 2

OneIn == <<"1", " ", "i", "n", " ">>

RECURSIVE DropOneIn(_)
\* v.replace('1 in ', '')
DropOneIn(v) ==
    IF v = << >> THEN << >>
    ELSE IF Len(v) >= Len(OneIn) /\ SubSeq(v, 1, Len(OneIn)) = OneIn
    THEN DropOneIn(SubSeq(v, Len(OneIn) + 1, Len(v)))
    ELSE <<v[1]>> \o DropOneIn(SubSeq(v, 2, Len(v)))

\* Prize.parse_odds on a string
parse_odds(v) == DecimalOf(Strip(DropCommas(DropOneIn(v))))

\* Prize.parse_total on a string, with the ge=0 of the field
parse_total(v) ==
    LET n == PyInt(Strip(DropCommas(v)))
    IN  [ok |-> n.ok /\ n.val >= 0, val |-> n.val]

\* GameRaw.validate_game_id with the min_length=1 of the field
validate_game_id(v) ==
    LET cleaned == Strip(v)
    IN  [ok |-> v # << >> /\ cleaned # << >> /\ AllDigits(cleaned), val |-> cleaned]

\* validate_extracted_prize: the Prize, or ValidationError
validate_extracted_prize(value, odds, total) ==
    LET v == parse_currency(value)
        o == parse_odds(odds)
        t == parse_total(total)
    IN  [ok |-> v.ok /\ o.ok /\ t.ok,
         prize |-> [value |-> v, odds |-> o, total |-> t.val,
                    raw_value |-> value, raw_odds |-> odds, raw_total |-> total]]

\* validate_extracted_game: the GameRaw, or ValidationError
validate_extracted_game(game_id, game_name, url_slug, prizes) ==
    LET validated_prizes ==
            [i \in 1..Len(prizes) |->
                validate_extracted_prize(prizes[i].value, prizes[i].odds, prizes[i].total)]
        id == validate_game_id(game_id)
    IN  [ok |-> /\ \A i \in 1..Len(prizes) : validated_prizes[i].ok
                /\ id.ok
                /\ game_name # ""
                /\ Len(prizes) >= 1,
         game |-> [game_id |-> id.val, game_name |-> game_name, url_slug |-> url_slug,
                   prizes |-> [i \in 1..Len(prizes) |-> validated_prizes[i].prize]]]

\* GameRaw.model_dump(mode='json'): the Decimals become their str()
model_dump(game) ==
    [game_id |-> game.game_id, game_name |-> game.game_name,
     url_slug |-> game.url_slug, ticket_price |-> None,
     prizes |-> [i \in 1..Len(game.prizes) |->
                    [game.prizes[i] EXCEPT !.value = @.text, !.odds = @.text]]]

HasFourCols(cols) == Len(cols) >= 4

\* what the loop body reads off one div.databox: the digits of the game
\* number, the name and slug of the link, one prize per row of four columns
Extract(box) ==
    [game_id |-> IF box.gamenumber.present THEN StripNonDigits(box.gamenumber.text)
                 ELSE << >>,
     game_name |-> IF box.gamename.present THEN box.gamename.text ELSE "Unknown",
     url_slug |-> IF box.gamename.present /\ Len(box.gamename.href) >= 3
                  THEN box.gamename.href[3] ELSE "unknown",
     prizes |-> LET rows == SelectSeq(box.rows, HasFourCols)
                IN  [i \in 1..Len(rows) |->
                        [value |-> rows[i][1], odds |-> rows[i][2], total |-> rows[i][3]]]]

\* mutant of ParseBox: a failed validation ends the batch collected so far
ParseBox_DropBatch(parsed_games, box) ==
    LET e == Extract(box)
        v == validate_extracted_game(e.game_id, e.game_name, e.url_slug, e.prizes)
    IN  IF e.game_id # << >> /\ e.prizes # << >>
        THEN IF v.ok THEN Append(parsed_games, v.game) ELSE << >>
        ELSE parsed_games

\* one iteration of the loop over game_boxes
ParseBox(parsed_games, box) ==
    LET e == Extract(box)
        v == validate_extracted_game(e.game_id, e.game_name, e.url_slug, e.prizes)
    IN  IF e.game_id # << >> /\ e.prizes # << >>
        THEN IF v.ok THEN Append(parsed_games, v.game) ELSE parsed_games
        ELSE parsed_games

RECURSIVE ParseLoop(_, _, _)
\* the loop over game_boxes from its n-th iteration on; taking the length
\* has each iteration evaluated before the next one starts
ParseLoop(parsed_games, game_boxes, n) ==
    IF n > Len(game_boxes) THEN parsed_games
    ELSE LET kept == ParseBox(parsed_games, game_boxes[n])
         IN  IF Len(kept) >= 0 THEN ParseLoop(kept, game_boxes, n + 1) ELSE kept

NoCapture == [kind |-> "none", games |-> << >>]

\* capture_session on a page: None when the page does not load, when the
\* safety brake trips or when SensorOutput rejects an empty list of games
capture_session(page) ==
    IF ~page.loads THEN NoCapture
    ELSE IF Len(page.game_boxes) < SAFETY_THRESHOLD THEN NoCapture
    ELSE LET parsed_games == ParseLoop(<< >>, page.game_boxes, 1)
         IN  IF Len(parsed_games) < 1 THEN NoCapture
             ELSE [kind |-> "capture",
                   games |-> [i \in 1..Len(parsed_games) |-> model_dump(parsed_games[i])]]

Row(value, odds, total) == <<value, odds, total, << >> >>

Box(number, name, rows) ==
    [gamenumber |-> [present |-> TRUE, text |-> number],
     gamename |-> [present |-> TRUE, text |-> name,
                   href |-> <<"scratch-off", "g", "slug">>],
     rows |-> rows]

GoodRow == Row(<<"$", "1", ",", "0", "0", "0">>, <<"1", " ", "i", "n", " ", "9">>, <<"2">>)

\* the boxes that vary: two sound ones, and one each with no rows, with a
\* row of three columns, with a number without digits, without the number
\* span, with an empty name, and with a value, odds or total that is no
\* number
VariedBoxes ==
    { Box(<<"#", "1", "0", "1">>, "Cash", <<GoodRow>>),
      Box(<<"1", "0", "2">>, "Gold", <<GoodRow, Row(<<"$", "4">>, <<"3", ".", "5">>, <<"0">>)>>),
      Box(<<"1", "0", "3">>, "Zero", << >>),
      Box(<<"1", "0", "4">>, "Thin", << <<<<"$", "4">>, <<"3">>, <<"1">> >> >>),
      Box(<<"N", "/", "A">>, "Anon", <<GoodRow>>),
      [Box(<< >>, "Bare", <<GoodRow>>) EXCEPT !.gamenumber.present = FALSE],
      Box(<<"1", "0", "5">>, "", <<GoodRow>>),
      Box(<<"1", "0", "6">>, "Tbd", <<GoodRow, Row(<<"T", "B", "D">>, <<"3">>, <<"1">>)>>),
      Box(<<"1", "0", "7">>, "Odd", <<Row(<<"$", "4">>, <<"-">>, <<"1">>)>>),
      Box(<<"1", "0", "8">>, "Half", <<Row(<<"$", "4">>, <<"3">>, <<"1", ".", "5">>)>>) }

\* the sound boxes that fill the rest of a page
Filler(i) == Box(IntStr(200 + i), "Fill", <<GoodRow>>)

RECURSIVE Runs(_)
\* the runs of at most n varied boxes
Runs(n) ==
    IF n = 0 THEN { << >> }
    ELSE Runs(n - 1) \cup { Append(r, b) : r \in { q \in Runs(n - 1) : Len(q) = n - 1 },
                                           b \in VariedBoxes }

\* a page of n boxes: a filler, the varied run, fillers
PageOf(run, n) ==
    <<Filler(1)>> \o run \o [i \in 1..(n - Len(run) - 1) |-> Filler(i + 1)]

\* pages one short of the safety threshold, at it, and one above it
Pages ==
    { [loads |-> TRUE, game_boxes |-> PageOf(run, n)] :
          run \in Runs(MaxVaried),
          n \in {SAFETY_THRESHOLD - 1, SAFETY_THRESHOLD, SAFETY_THRESHOLD + 1} }
    \cup { [loads |-> FALSE, game_boxes |-> << >>] }

InitSensor ==
    /\ registry_file = NoFile(EmptyDict)
    /\ pulse_file = NoFile(<< >>)
    /\ clock = 0
    /\ uuid_count = 0
    /\ live_log = << >>
    /\ audit = AuditRecord(NoFile(EmptyDict), NoFile(<< >>), << >>, None, None,
                           NoLocals, "idle", "none")
    /\ inflight = [p \in Procs |-> IdleProc]
    /\ pulse_trace = << >>
    /\ differ = NoDiffer
    /\ vault = Unused
    /\ librarian = Unused
    /\ calc = Unused
    /\ \E page \in Pages : sensor = [phase |-> "page", page |-> page]

\* one whole capture_session on the page served
CaptureSession ==
    /\ sensor.phase = "page"
    /\ sensor' = [phase |-> "captured", page |-> sensor.page,
                  capture |-> capture_session(sensor.page)]
    /\ UNCHANGED <<registry_file, pulse_file, clock, uuid_count, live_log, audit,
                   inflight, pulse_trace, differ, vault, librarian, calc>>

NextSensor == CaptureSession

SpecSensor == InitSensor /\ [][NextSensor]_vars

\* ------------------------------------------------------------------ C28
\* a box whose record went through validate_extracted_game and passed
PassedValidation(box) ==
    LET e == Extract(box)
    IN  /\ e.game_id # << >>
        /\ e.prizes # << >>
        /\ validate_extracted_game(e.game_id, e.game_name, e.url_slug, e.prizes).ok

Captured == sensor.phase = "captured" /\ sensor.capture.kind = "capture"

C31_FrameOfMissedEntries ==
    Committed =>
        \A gid \in (DOMAIN Before) \ BatchIds :
            /\ gid \in DOMAIN After
            /\ IF Before[gid].status # "ACTIVE" THEN After[gid] = Before[gid]
               ELSE IF Before[gid].miss_count + 1 >= 3
               THEN After[gid] = [Before[gid] EXCEPT !.miss_count = @ + 1,
                                                     !.status = "RETIRED",
                                                     !.death_date = audit.now]
               ELSE After[gid] = [Before[gid] EXCEPT !.miss_count = @ + 1]

\* a committed run that missed one ACTIVE entry for the first time and left
\* a RETIRED entry outside the batch alone
C31_Witness ==
    /\ Committed
    /\ \E gid, other \in (DOMAIN Before) \ BatchIds :
          /\ Before[gid].status = "ACTIVE"
          /\ After[gid].miss_count = 1
          /\ Before[other].status = "RETIRED"
          /\ After[other] = Before[other]

\* ------------------------------------------------------------------ C32
\* C32: the sample appended by a committed run has birth_count equal to
\* the number of entries the run created (one per new id, also when the
\* batch repeats it), death_count equal to the number of entries that went
\* from ACTIVE to RETIRED in the run, and game_count equal to the number of
\* records of the batch.
C32_SampleCounts ==
    Committed =>
        LET sample == pulse_file.data[Len(pulse_file.data)]
        IN  /\ sample.run_id = audit.run_id
            /\ sample.birth_count = Cardinality((DOMAIN After) \ DOMAIN Before)
            /\ sample.death_count =
                  Cardinality({ gid \in DOMAIN Before :
                                   /\ Before[gid].status = "ACTIVE"
                                   /\ After[gid].status = "RETIRED" })
            /\ sample.game_count = Len(audit.parsed_games)

\* a committed run whose batch lists one new id twice while another entry
\* is retired: one birth, one death, two records
C32_Witness ==
    /\ Committed
    /\ Len(audit.parsed_games) = 2
    /\ Cardinality(BatchIds) = 1
    /\ pulse_file.data[Len(pulse_file.data)].birth_count = 1
    /\ pulse_file.data[Len(pulse_file.data)].death_count = 1
    /\ pulse_file.data[Len(pulse_file.data)].game_count = 2

\* ------------------------------------------------------------------ C35
\* C35: in the sample appended by a committed run, total_wealth equals
\* calculate_total_wealth of the registry the same run persists, also in
\* runs that retire entries.
C35_SampleWealthOfCommittedState ==
    Committed =>
        pulse_file.data[Len(pulse_file.data)].total_wealth = calculate_total_wealth(After)

\* ------------------------------------------------------------------ C36
\* C36: in every persisted registry reached from the empty one, an ACTIVE
\* entry has miss_count 0, 1 or 2 and a RETIRED entry has miss_count 3;
\* miss_count never exceeds 3.
C36_MissCountRange ==
    \A gid \in DOMAIN After :
        /\ After[gid].miss_count \in 0..3
        /\ After[gid].status = "ACTIVE" => After[gid].miss_count \in 0..2
        /\ After[gid].status = "RETIRED" => After[gid].miss_count = 3

\* a persisted registry with a RETIRED entry beside an ACTIVE entry that
\* was RETIRED before the run and is counted from 0 again
C36_Witness ==
    /\ Committed
    /\ \E gid \in DOMAIN After, other \in DOMAIN Before :
          /\ After[gid].status = "RETIRED"
          /\ Before[other].status = "RETIRED"
          /\ After[other].status = "ACTIVE"
          /\ After[other].miss_count = 0

\* ------------------------------------------------------------------ C37
\* C37: in every persisted registry reached from the empty one, an entry's
\* death_date is non-null if and only if its status is RETIRED.
C37_DeathDateIffRetired ==
    \A gid \in DOMAIN After :
        (After[gid].death_date # None) <=> (After[gid].status = "RETIRED")

\* ------------------------------------------------------------------ C38
\* a registry of process_audit as json.load returns it from the file that
\* json.dump wrote: the items of the dict (here in key order; the sets of
\* ids compute_delta works on do not depend on it)
AsItems(registry) ==
    LET ids == IterSet(<<"101", "102">>, DOMAIN registry)
    IN  [k \in 1..Len(ids) |-> DictItem(ids[k], registry[ids[k]])]

\* C38: over committed runs with a readable registry file no key is ever
\* removed from the persisted registry, every key equals the game_id of
\* its entry, and games_retired of compute_delta between the registries
\* before and after a committed run holds no item without a
\* status-transition reason.
C38_RegistryOnlyGrows ==
    /\ \A gid \in DOMAIN After : After[gid].game_id = gid
    /\ Committed =>
          /\ (DOMAIN Before) \subseteq (DOMAIN After)
          /\ \A order \in IterOrders :
                LET games_retired ==
                        GamesRemoved(AsItems(Before), AsItems(After), order)
                        \o StatusChanges(AsItems(Before), AsItems(After), order)
                IN  \A k \in 1..Len(games_retired) :
                        "reason" \in DOMAIN games_retired[k]

\* a committed run that adds a key while another entry is retired: the
\* delta lists the retired game, with its reason
C38_Witness ==
    /\ Committed
    /\ (DOMAIN After) \ (DOMAIN Before) # {}
    /\ StatusChanges(AsItems(Before), AsItems(After), <<"101", "102">>) # << >>
    /\ GamesRemoved(AsItems(Before), AsItems(After), <<"101", "102">>) = << >>

\* ------------------------------------------------------------------ C33
\* the summary has a clause of one of the kinds
HasClause(summary, kinds) == \E k \in 1..Len(summary) : summary[k].clause \in kinds

\* C33: the summary of compute_delta is the fixed sentence if and only if
\* games_added, games_retired and prize_changes are empty and wealth_delta
\* is 0; whenever one of them is non-empty the summary has a clause for it.
C33_SummaryClauses ==
    (differ.phase = "delta" /\ differ.delta.kind = "delta") =>
        LET delta == differ.delta
        IN  /\ (delta.summary = NoChangesSentence)
                  <=> /\ delta.games_added = << >>
                      /\ delta.games_retired = << >>
                      /\ delta.prize_changes = << >>
                      /\ delta.wealth_delta = 0
            /\ delta.games_added # << >> => HasClause(delta.summary, {"new game(s)"})
            /\ delta.games_retired # << >> => HasClause(delta.summary, {"retired game(s)"})
            /\ delta.prize_changes # << >>
                  => HasClause(delta.summary, {"TOP PRIZE", "other prize(s) claimed"})
            /\ delta.wealth_delta # 0 => HasClause(delta.summary, {"Total wealth"})

\* ------------------------------------------------------------------ C34
\* C34: has_meaningful_changes of compute_delta(old, new) is true if and
\* only if compute_data_hash(old) differs from compute_data_hash(new).
C34_OraclesAgree ==
    (differ.phase = "delta" /\ differ.delta.kind = "delta") =>
        (differ.meaningful
            <=> compute_data_hash(differ.old_registry) # compute_data_hash(differ.new_registry))

\* ------------------------------------------------------------------ C39
\* the cached fingerprint of bucket state v, if there is one, is that of
\* the latest snapshot archived
CacheMatchesSnapshot(v) ==
    v.cache.exists =>
        /\ v.snapshots # << >>
        /\ v.cache.hash = compute_data_hash(v.snapshots[Len(v.snapshots)].registry)

C40_BatchAtLeastThreshold ==
    Captured => Len(sensor.capture.games) >= SAFETY_THRESHOLD

====
